---- MODULE Spec2Model ----
(***************************************************************************)
(* Model of the DX12 command encoder of wgpu-hal                           *)
(* (wgpu-hal/src/dx12/command.rs).                                         *)
(*                                                                         *)
(* An encoder owns an optional open native command list, a pool of closed  *)
(* lists (free_lists), the Temp scratch and the Pass state.  Native lists  *)
(* are modelled by what the encoder makes them do: a list is created in    *)
(* the recording state, records the commands it is given, is closed, and   *)
(* is reset back to an empty recording list.                               *)
(***************************************************************************)
EXTENDS Integers, Sequences, FiniteSets, TLC

(***************************************************************************)
(* Bounds of the model.                                                    *)
(***************************************************************************)
\* native lists the device creates before creation only fails
MaxHandles == 2
\* commands the native lists hold together before the caller stops recording
MaxCmds == 2

None == "None"

\* The encoders of the model; Spec drives the first one only.
Encoders == {"e1", "e2"}

Handles == 1..MaxHandles

\* A label is an optional string, <<>> or <<str>>; a string is the sequence of
\* its Unicode scalar values ("a" followed by U+1F600).
LabelText == <<97, 128512>>
Labels == {<<>>, <<LabelText>>}

VARIABLES
    list,        \* list[e]: the encoder's open native list: <<>> or <<h>>
    free_lists,  \* free_lists[e]: the encoder's pool of closed lists
    temp,        \* temp[e]: the Temp scratch (barriers, marker)
    pass,        \* pass[e]: the Pass state
    native,      \* native[h]: the native list object h
    created,     \* number of native lists created so far
    cmdbufs,     \* handles of the command buffers the caller holds
    last         \* the last call (operation, encoder, argument, result, the
                 \* native commands it recorded) and the call before it

vars == <<list, free_lists, temp, pass, native, created, cmdbufs, last>>

(***************************************************************************)
(* Native command list objects.                                            *)
(***************************************************************************)
\* A list that was not created yet.
NoList == [state |-> "none", cmds |-> <<>>, name |-> <<>>]

\* CreateCommandList: a new list is created recording and empty.
create_graphics_command_list == [state |-> "recording", cmds |-> <<>>, name |-> <<>>]

\* ID3D12GraphicsCommandList::Reset: back to an empty recording list.
NativeReset(l) == [l EXCEPT !.state = "recording", !.cmds = <<>>]

\* ID3D12GraphicsCommandList::Close.
NativeClose(l) == [l EXCEPT !.state = "closed"]

\* ID3D12Object::SetName, called only when a label is given.
NativeSetName(l, label) == IF label # <<>> THEN [l EXCEPT !.name = label] ELSE l

\* The list records the commands cs, in order.
NativeRecord(l, cs) == [l EXCEPT !.cmds = l.cmds \o cs]

(***************************************************************************)
(* Temp and Pass.                                                          *)
(***************************************************************************)
\* vertex-buffer slots and root-parameter slots of the model
VertexSlots == {0, 1}
RootIndices == {0, 1, 2}

ZeroView == [BufferLocation |-> 0, SizeInBytes |-> 0, StrideInBytes |-> 0]

\* Temp::clear
TempClear == [barriers |-> <<>>, marker |-> <<>>]

\* PassState::new
PassNew ==
    [ kind                 |-> "Transfer",
      has_label            |-> FALSE,
      signature            |-> None,
      root_elements        |-> [i \in RootIndices |-> [tag |-> "Empty"]],
      dirty_vertex_buffers |-> 0,
      vertex_buffers       |-> [i \in VertexSlots |-> ZeroView],
      resolves             |-> <<>> ]

\* PassState::clear
PassClear == PassNew

DrawOps ==
    {"draw", "draw_indexed", "draw_indirect", "draw_indexed_indirect",
     "draw_indirect_count", "draw_indexed_indirect_count"}

\* The calls after which no earlier vertex-buffer change is pending: the
\* draws, and the calls that clear the Pass.
EndsDrawInterval(op, ret) ==
    \/ op \in DrawOps \cup {"end_render_pass", "end_compute_pass"}
    \/ op = "begin_encoding" /\ ret = "Ok"

PassBegins == {"begin_render_pass", "begin_compute_pass"}

SignatureCalls == {"set_bind_group", "set_render_pipeline", "set_compute_pipeline"}

\* The calls that end with self.pass.clear().
ClearsPass(op, ret) ==
    \/ op = "begin_encoding" /\ ret = "Ok"
    \/ op \in {"end_render_pass", "end_compute_pass"}

\* A call as the caller sees it: ret is "Ok" or "DeviceError", out the value
\* returned, rec the native commands the call recorded, h the native list the
\* call opened, closed or handed out (<<>> or <<h>>), popped the number of
\* commands held by the list begin_encoding took from the pool, changed the
\* vertex-buffer slots whose view changed since the pass began, vb_set and
\* strided the slots set by set_vertex_buffer and the slots whose stride
\* set_render_pipeline changed since the last draw of the pass, bound whether
\* a bind group or pipeline was set since the pass began, written the root
\* slots set_bind_group wrote since then, resolving the resolves the pass was
\* begun with, labelled whether the pass was begun with a label, origin the
\* signature of the layout each root slot was written
\* with since the Pass was last cleared, prev the call before.
Call(op, e, arg, ret, out, rec) ==
    [op |-> op, e |-> e, arg |-> arg, ret |-> ret, out |-> out, rec |-> rec,
     h |-> <<>>, popped |-> 0, changed |-> last.changed,
     bound   |-> IF op \in PassBegins THEN FALSE
                 ELSE IF op \in SignatureCalls THEN TRUE ELSE last.bound,
     written |-> IF op \in PassBegins THEN {} ELSE last.written,
     resolving |-> IF op \in PassBegins THEN <<>> ELSE last.resolving,
     labelled |-> IF op = "begin_compute_pass" THEN arg # <<>>
                  ELSE IF op = "begin_render_pass" THEN arg.label # <<>>
                  ELSE last.labelled,
     origin  |-> IF ClearsPass(op, ret) THEN [i \in RootIndices |-> None]
                 ELSE last.origin,
     vb_set  |-> IF EndsDrawInterval(op, ret) THEN {} ELSE last.vb_set,
     strided |-> IF EndsDrawInterval(op, ret) THEN {} ELSE last.strided,
     prev |-> [op |-> last.op, h |-> last.h, held |-> last.popped > 0]]

NoCall ==
    [op |-> "new", e |-> None, arg |-> None, ret |-> "Ok", out |-> <<>>, rec |-> <<>>,
     h |-> <<>>, popped |-> 0, changed |-> {}, vb_set |-> {}, strided |-> {},
     bound |-> FALSE, written |-> {}, resolving |-> <<>>,
     origin |-> [i \in RootIndices |-> None], labelled |-> FALSE,
     prev |-> [op |-> "new", h |-> <<>>, held |-> FALSE]]

(***************************************************************************)
(* Lifecycle.                                                              *)
(***************************************************************************)
\* Faulty variant of begin_encoding_reuse: the popped list is opened without reset.
begin_encoding_reuse_no_reset(e, label) ==
    /\ free_lists[e] # <<>>
    /\ LET h == free_lists[e][Len(free_lists[e])]
       IN /\ free_lists' = [free_lists EXCEPT ![e] = SubSeq(@, 1, Len(@) - 1)]
          /\ native' = [native EXCEPT
                          ![h] = NativeSetName([@ EXCEPT !.state = "recording"], label)]
          /\ list' = [list EXCEPT ![e] = <<h>>]
          /\ last' = [Call("begin_encoding", e, label, "Ok", <<>>, <<>>)
                         EXCEPT !.h = <<h>>, !.popped = Len(native[h].cmds)]
    /\ temp' = [temp EXCEPT ![e] = TempClear]
    /\ pass' = [pass EXCEPT ![e] = PassClear]
    /\ UNCHANGED <<created, cmdbufs>>

\* Faulty variant of begin_encoding_reuse: Temp and Pass are left as the
\* encoding before left them.
begin_encoding_reuse_keeps_scratch(e, label) ==
    /\ free_lists[e] # <<>>
    /\ LET h == free_lists[e][Len(free_lists[e])]
       IN /\ free_lists' = [free_lists EXCEPT ![e] = SubSeq(@, 1, Len(@) - 1)]
          /\ native' = [native EXCEPT ![h] = NativeSetName(NativeReset(@), label)]
          /\ list' = [list EXCEPT ![e] = <<h>>]
          /\ last' = [Call("begin_encoding", e, label, "Ok", <<>>, <<>>)
                         EXCEPT !.h = <<h>>, !.popped = Len(native[h].cmds)]
    /\ UNCHANGED <<temp, pass, created, cmdbufs>>

\* begin_encoding, the pool is not empty: pop, reset, name, open.
begin_encoding_reuse(e, label) ==
    /\ free_lists[e] # <<>>
    /\ LET h == free_lists[e][Len(free_lists[e])]
       IN /\ free_lists' = [free_lists EXCEPT ![e] = SubSeq(@, 1, Len(@) - 1)]
          /\ native' = [native EXCEPT ![h] = NativeSetName(NativeReset(@), label)]
          /\ list' = [list EXCEPT ![e] = <<h>>]
          /\ last' = [Call("begin_encoding", e, label, "Ok", <<>>, <<>>)
                         EXCEPT !.h = <<h>>, !.popped = Len(native[h].cmds)]
    /\ temp' = [temp EXCEPT ![e] = TempClear]
    /\ pass' = [pass EXCEPT ![e] = PassClear]
    /\ UNCHANGED <<created, cmdbufs>>

\* begin_encoding, the pool is empty and the device creates a list.
begin_encoding_create(e, label) ==
    /\ free_lists[e] = <<>>
    /\ created < MaxHandles
    /\ LET h == created + 1
       IN /\ created' = h
          /\ native' = [native EXCEPT
                          ![h] = NativeSetName(create_graphics_command_list, label)]
          /\ list' = [list EXCEPT ![e] = <<h>>]
          /\ last' = [Call("begin_encoding", e, label, "Ok", <<>>, <<>>)
                         EXCEPT !.h = <<h>>]
    /\ temp' = [temp EXCEPT ![e] = TempClear]
    /\ pass' = [pass EXCEPT ![e] = PassClear]
    /\ UNCHANGED <<free_lists, cmdbufs>>

\* Faulty variant of begin_encoding_fail: the scratch is cleared before the list is
\* obtained, so a failed call loses Temp and Pass.
begin_encoding_fail_clears(e, label) ==
    /\ free_lists[e] = <<>>
    /\ last' = Call("begin_encoding", e, label, "DeviceError", <<>>, <<>>)
    /\ temp' = [temp EXCEPT ![e] = TempClear]
    /\ pass' = [pass EXCEPT ![e] = PassClear]
    /\ UNCHANGED <<list, free_lists, native, created, cmdbufs>>

\* begin_encoding, the pool is empty and creation fails: `?` returns early.
begin_encoding_fail(e, label) ==
    /\ free_lists[e] = <<>>
    /\ last' = Call("begin_encoding", e, label, "DeviceError", <<>>, <<>>)
    /\ UNCHANGED <<list, free_lists, temp, pass, native, created, cmdbufs>>

begin_encoding(e, label) ==
    \/ begin_encoding_reuse(e, label)
    \/ begin_encoding_create(e, label)
    \/ begin_encoding_fail(e, label)

\* Faulty variant of discard_encoding: the list is pooled at the front of the pool.
discard_encoding_push_front(e) ==
    /\ IF list[e] # <<>>
       THEN /\ native' = [native EXCEPT ![list[e][1]] = NativeClose(@)]
            /\ free_lists' = [free_lists EXCEPT ![e] = list[e] \o @]
            /\ list' = [list EXCEPT ![e] = <<>>]
       ELSE UNCHANGED <<native, free_lists, list>>
    /\ last' = [Call("discard_encoding", e, None, "Ok", <<>>, <<>>) EXCEPT !.h = list[e]]
    /\ UNCHANGED <<temp, pass, created, cmdbufs>>

\* discard_encoding
discard_encoding(e) ==
    /\ IF list[e] # <<>>
       THEN /\ native' = [native EXCEPT ![list[e][1]] = NativeClose(@)]
            /\ free_lists' = [free_lists EXCEPT ![e] = Append(@, list[e][1])]
            /\ list' = [list EXCEPT ![e] = <<>>]
       ELSE UNCHANGED <<native, free_lists, list>>
    /\ last' = [Call("discard_encoding", e, None, "Ok", <<>>, <<>>) EXCEPT !.h = list[e]]
    /\ UNCHANGED <<temp, pass, created, cmdbufs>>

\* Faulty variant of end_encoding: the list handed out is pooled as well.
end_encoding_pools(e) ==
    /\ list[e] # <<>>
    /\ native' = [native EXCEPT ![list[e][1]] = NativeClose(@)]
    /\ cmdbufs' = cmdbufs \cup {list[e][1]}
    /\ free_lists' = [free_lists EXCEPT ![e] = Append(@, list[e][1])]
    /\ list' = [list EXCEPT ![e] = <<>>]
    /\ last' = [Call("end_encoding", e, None, "Ok", list[e], <<>>) EXCEPT !.h = list[e]]
    /\ UNCHANGED <<temp, pass, created>>

\* end_encoding; self.list.take().unwrap() needs an open list.
end_encoding(e) ==
    /\ list[e] # <<>>
    /\ native' = [native EXCEPT ![list[e][1]] = NativeClose(@)]
    /\ cmdbufs' = cmdbufs \cup {list[e][1]}
    /\ list' = [list EXCEPT ![e] = <<>>]
    /\ last' = [Call("end_encoding", e, None, "Ok", list[e], <<>>) EXCEPT !.h = list[e]]
    /\ UNCHANGED <<free_lists, temp, pass, created>>

RECURSIVE PushAll(_, _)
PushAll(pool, bufs) ==
    IF bufs = <<>> THEN pool
    ELSE PushAll(Append(pool, Head(bufs)), Tail(bufs))

\* The sequences of distinct command buffers the caller can hand over.
CommandBufferSeqs ==
    {s \in UNION {[1..n -> cmdbufs] : n \in 0..Cardinality(cmdbufs)} :
        \A i, j \in DOMAIN s : i # j => s[i] # s[j]}

SeqRange(s) == {s[i] : i \in DOMAIN s}

\* Faulty variant of reset_all: the command buffers are borrowed, the caller
\* keeps them.
reset_all_borrows(e, command_buffers) ==
    /\ free_lists' = [free_lists EXCEPT ![e] = PushAll(@, command_buffers)]
    /\ last' = Call("reset_all", e, command_buffers, "Ok", <<>>, <<>>)
    /\ UNCHANGED <<list, temp, pass, native, created, cmdbufs>>

\* reset_all: the command buffers are moved in, their lists are pooled.
reset_all(e, command_buffers) ==
    /\ free_lists' = [free_lists EXCEPT ![e] = PushAll(@, command_buffers)]
    /\ cmdbufs' = cmdbufs \ SeqRange(command_buffers)
    /\ last' = Call("reset_all", e, command_buffers, "Ok", <<>>, <<>>)
    /\ UNCHANGED <<list, temp, pass, native, created>>

(***************************************************************************)
(* Passes.                                                                 *)
(***************************************************************************)
RECURSIVE TotalCmds(_)
TotalCmds(hs) ==
    IF hs = {} THEN 0
    ELSE LET h == CHOOSE x \in hs : TRUE
         IN Len(native[h].cmds) + TotalCmds(hs \ {h})

Min(a, b) == IF a <= b THEN a ELSE b

\* self.list.unwrap() needs an open list.
HasList(e) == list[e] # <<>>

\* The caller records while the native lists hold fewer than MaxCmds
\* commands.
Budget == TotalCmds(Handles) < MaxCmds

\* str::encode_utf16: one unit per scalar value of the basic plane, a
\* surrogate pair for the others.
RECURSIVE encode_utf16(_)
encode_utf16(str) ==
    IF str = <<>> THEN <<>>
    ELSE LET c == Head(str)
         IN (IF c < 65536 THEN <<c>>
             ELSE <<55296 + ((c - 65536) \div 1024), 56320 + ((c - 65536) % 1024)>>)
            \o encode_utf16(Tail(str))

\* Temp::prepare_marker: the marker buffer after the call; the size passed
\* on is twice its length.
prepare_marker(marker) == Append(encode_utf16(marker), 0)

\* begin_pass: the commands it records
begin_pass_cmds(label) ==
    (IF label # <<>>
     THEN <<[op |-> "BeginEvent", data |-> prepare_marker(label[1]),
             size |-> Len(prepare_marker(label[1])) * 2]>>
     ELSE <<>>)
    \o <<[op |-> "SetDescriptorHeaps", heaps |-> <<"heap_views", "heap_samplers">>]>>

\* begin_pass: the Temp it leaves
begin_pass_temp(t, label) ==
    IF label # <<>> THEN [t EXCEPT !.marker = prepare_marker(label[1])] ELSE t

\* begin_pass: the Pass it leaves
begin_pass_state(p, kind, label) ==
    [p EXCEPT !.kind = kind,
              !.has_label = IF label # <<>> THEN TRUE ELSE @]

\* Faulty variant of end_pass_cmds: the event is closed before the heaps are
\* unbound.
end_pass_cmds_event_first(p) ==
    (IF p.has_label THEN <<[op |-> "EndEvent"]>> ELSE <<>>)
    \o <<[op |-> "SetDescriptorHeaps", heaps |-> <<>>]>>

\* end_pass: the commands it records
end_pass_cmds(p) ==
    <<[op |-> "SetDescriptorHeaps", heaps |-> <<>>]>>
    \o (IF p.has_label THEN <<[op |-> "EndEvent"]>> ELSE <<>>)

\* begin_compute_pass
begin_compute_pass(e, label) ==
    /\ HasList(e)
    /\ LET rec == begin_pass_cmds(label)
       IN /\ native' = [native EXCEPT ![list[e][1]] = NativeRecord(@, rec)]
          /\ last' = [Call("begin_compute_pass", e, label, "Ok", <<>>, rec)
                         EXCEPT !.changed = {}]
    /\ temp' = [temp EXCEPT ![e] = begin_pass_temp(@, label)]
    /\ pass' = [pass EXCEPT ![e] = begin_pass_state(@, "Compute", label)]
    /\ UNCHANGED <<list, free_lists, created, cmdbufs>>

\* Faulty variant of end_compute_pass: of the Pass, only the kind and the
\* label are reset.
end_compute_pass_keeps_state(e) ==
    /\ HasList(e)
    /\ LET rec == end_pass_cmds(pass[e])
       IN /\ native' = [native EXCEPT ![list[e][1]] = NativeRecord(@, rec)]
          /\ last' = Call("end_compute_pass", e, None, "Ok", <<>>, rec)
    /\ pass' = [pass EXCEPT ![e].kind = "Transfer", ![e].has_label = FALSE]
    /\ UNCHANGED <<list, free_lists, temp, created, cmdbufs>>

\* end_compute_pass
end_compute_pass(e) ==
    /\ HasList(e)
    /\ LET rec == end_pass_cmds(pass[e])
       IN /\ native' = [native EXCEPT ![list[e][1]] = NativeRecord(@, rec)]
          /\ last' = Call("end_compute_pass", e, None, "Ok", <<>>, rec)
    /\ pass' = [pass EXCEPT ![e] = PassClear]
    /\ UNCHANGED <<list, free_lists, temp, created, cmdbufs>>

\* dispatch
dispatch(e, count) ==
    /\ HasList(e)
    /\ LET rec == <<[op |-> "Dispatch", count |-> count]>>
       IN /\ native' = [native EXCEPT ![list[e][1]] = NativeRecord(@, rec)]
          /\ last' = Call("dispatch", e, count, "Ok", <<>>, rec)
    /\ UNCHANGED <<list, free_lists, temp, pass, created, cmdbufs>>

(***************************************************************************)
(* Resources, usages and native resource states.                           *)
(***************************************************************************)
\* texture geometry of the model
MaxMips == 2
MaxLayers == 2
\* barriers one transition call is given
MaxBarriers == 2

\* D3D12_RESOURCE_BARRIER_ALL_SUBRESOURCES: the 32-bit pattern 0xffffffff, which
\* no subresource index has, written as the signed number of that pattern.
ALL_SUBRESOURCES == -1

Buffers == {"b1", "b2"}

\* A texture: its resource, texture.mip_level_count, texture.array_layer_count().
Texture1 == [resource |-> "t1", mip_level_count |-> MaxMips, array_layer_count |-> MaxLayers]
Texture2 == [resource |-> "t2", mip_level_count |-> 1, array_layer_count |-> 1]
Textures == {Texture1, Texture2}

\* Usages are sets of flags.
BufferUsesSet ==
    { {"COPY_SRC"}, {"VERTEX"}, {"UNIFORM"}, {"STORAGE_WRITE"},
      {"STORAGE_READ", "STORAGE_WRITE"} }

TextureUsesSet ==
    { {"COPY_DST"}, {"COLOR_TARGET"}, {"STORAGE_READ"}, {"STORAGE_WRITE"} }

\* conv::map_buffer_usage_to_state: the native state, a set of state bits.
map_buffer_usage_to_state(usage) ==
    (IF "COPY_SRC" \in usage THEN {"COPY_SOURCE"} ELSE {})
    \cup (IF "COPY_DST" \in usage THEN {"COPY_DEST"} ELSE {})
    \cup (IF "INDEX" \in usage THEN {"INDEX_BUFFER"} ELSE {})
    \cup (IF usage \cap {"VERTEX", "UNIFORM"} # {}
          THEN {"VERTEX_AND_CONSTANT_BUFFER"} ELSE {})
    \cup (IF "STORAGE_WRITE" \in usage THEN {"UNORDERED_ACCESS"}
          ELSE IF "STORAGE_READ" \in usage
          THEN {"PIXEL_SHADER_RESOURCE", "NON_PIXEL_SHADER_RESOURCE"} ELSE {})
    \cup (IF "INDIRECT" \in usage THEN {"INDIRECT_ARGUMENT"} ELSE {})

\* conv::map_texture_usage_to_state
map_texture_usage_to_state(usage) ==
    (IF "COPY_SRC" \in usage THEN {"COPY_SOURCE"} ELSE {})
    \cup (IF "COPY_DST" \in usage THEN {"COPY_DEST"} ELSE {})
    \cup (IF "RESOURCE" \in usage
          THEN {"PIXEL_SHADER_RESOURCE", "NON_PIXEL_SHADER_RESOURCE"} ELSE {})
    \cup (IF "COLOR_TARGET" \in usage THEN {"RENDER_TARGET"} ELSE {})
    \cup (IF "DEPTH_STENCIL_READ" \in usage THEN {"DEPTH_READ"} ELSE {})
    \cup (IF "DEPTH_STENCIL_WRITE" \in usage THEN {"DEPTH_WRITE"} ELSE {})
    \cup (IF usage \cap {"STORAGE_READ", "STORAGE_WRITE"} # {}
          THEN {"UNORDERED_ACCESS"} ELSE {})

\* Texture::calc_subresource
calc_subresource(texture, mip_level, array_layer, plane) ==
    mip_level + (array_layer + plane * texture.array_layer_count) * texture.mip_level_count

(***************************************************************************)
(* Barrier synthesis.                                                      *)
(***************************************************************************)
TransitionBarrier(resource, subresource, s0, s1) ==
    [Type |-> "TRANSITION", pResource |-> resource, Subresource |-> subresource,
     StateBefore |-> s0, StateAfter |-> s1]

UAVBarrier(resource) == [Type |-> "UAV", pResource |-> resource]

\* list.ResourceBarrier(len, ptr)
ResourceBarrier(barriers) ==
    [op |-> "ResourceBarrier", NumBarriers |-> Len(barriers), pBarriers |-> barriers]

\* Faulty variant of BufferBarriers: a hazard barrier for every unchanged state.
BufferBarriers_always_uav(barrier) ==
    LET s0 == map_buffer_usage_to_state(barrier.usage.start)
        s1 == map_buffer_usage_to_state(barrier.usage.end)
    IN IF s0 # s1
       THEN <<TransitionBarrier(barrier.buffer, ALL_SUBRESOURCES, s0, s1)>>
       ELSE <<UAVBarrier(barrier.buffer)>>

\* transition_buffers, the loop body: what one input pushes onto the scratch.
BufferBarriers(barrier) ==
    LET s0 == map_buffer_usage_to_state(barrier.usage.start)
        s1 == map_buffer_usage_to_state(barrier.usage.end)
    IN IF s0 # s1
       THEN <<TransitionBarrier(barrier.buffer, ALL_SUBRESOURCES, s0, s1)>>
       ELSE IF barrier.usage.start = {"STORAGE_WRITE"}
       THEN <<UAVBarrier(barrier.buffer)>>
       ELSE <<>>

\* range.mip_level_count, or what is left of the texture
RangeMips(barrier) ==
    IF barrier.range.mip_level_count # <<>> THEN barrier.range.mip_level_count[1]
    ELSE barrier.texture.mip_level_count - barrier.range.base_mip_level

\* range.array_layer_count, or what is left of the texture
RangeLayers(barrier) ==
    IF barrier.range.array_layer_count # <<>> THEN barrier.range.array_layer_count[1]
    ELSE barrier.texture.array_layer_count - barrier.range.base_array_layer

\* transition_textures: the test for "it affects the whole image"
WholeImage(barrier) ==
    /\ barrier.range.aspect = "All"
    /\ barrier.range.base_mip_level + RangeMips(barrier)
         = barrier.texture.mip_level_count
    /\ barrier.range.base_array_layer + RangeLayers(barrier)
         = barrier.texture.array_layer_count

\* transition_textures, the loop body: what one input pushes onto the scratch.
TextureBarriers(barrier) ==
    LET s0 == map_texture_usage_to_state(barrier.usage.start)
        s1 == map_texture_usage_to_state(barrier.usage.end)
        m  == RangeMips(barrier)
        n  == RangeLayers(barrier)
    IN IF s0 # s1
       THEN IF WholeImage(barrier)
            THEN <<TransitionBarrier(barrier.texture.resource, ALL_SUBRESOURCES, s0, s1)>>
            ELSE [k \in 1..(m * n) |->
                    TransitionBarrier(
                        barrier.texture.resource,
                        calc_subresource(
                            barrier.texture,
                            barrier.range.base_mip_level + ((k - 1) \div n),
                            barrier.range.base_array_layer + ((k - 1) % n),
                            0),
                        s0, s1)]
       ELSE IF barrier.usage.start = {"STORAGE_WRITE"}
       THEN <<UAVBarrier(barrier.texture.resource)>>
       ELSE <<>>

\* for barrier in barriers { ... self.temp.barriers.push(raw) }
RECURSIVE PushBufferBarriers(_, _)
PushBufferBarriers(scratch, barriers) ==
    IF barriers = <<>> THEN scratch
    ELSE PushBufferBarriers(scratch \o BufferBarriers(Head(barriers)), Tail(barriers))

RECURSIVE PushTextureBarriers(_, _)
PushTextureBarriers(scratch, barriers) ==
    IF barriers = <<>> THEN scratch
    ELSE PushTextureBarriers(scratch \o TextureBarriers(Head(barriers)), Tail(barriers))

\* Faulty variant of FlushBarriers: the batch is recorded whatever its length.
FlushBarriers_unconditional(op, e, barriers, scratch) ==
    /\ temp' = [temp EXCEPT ![e].barriers = scratch]
    /\ HasList(e)
    /\ native' = [native EXCEPT
                    ![list[e][1]] = NativeRecord(@, <<ResourceBarrier(scratch)>>)]
    /\ last' = Call(op, e, barriers, "Ok", <<>>, <<ResourceBarrier(scratch)>>)
    /\ UNCHANGED <<list, free_lists, pass, created, cmdbufs>>

\* The tail of a transition call: the batch is recorded when the scratch is
\* not empty, and only then is the list unwrapped.
FlushBarriers(op, e, barriers, scratch) ==
    /\ temp' = [temp EXCEPT ![e].barriers = scratch]
    /\ IF scratch # <<>>
       THEN /\ HasList(e)
            /\ native' = [native EXCEPT
                            ![list[e][1]] = NativeRecord(@, <<ResourceBarrier(scratch)>>)]
            /\ last' = Call(op, e, barriers, "Ok", <<>>, <<ResourceBarrier(scratch)>>)
       ELSE /\ native' = native
            /\ last' = Call(op, e, barriers, "Ok", <<>>, <<>>)
    /\ UNCHANGED <<list, free_lists, pass, created, cmdbufs>>

\* Faulty variant of transition_buffers: the scratch is not cleared first.
transition_buffers_no_clear(e, barriers) ==
    FlushBarriers("transition_buffers", e, barriers,
                  PushBufferBarriers(temp[e].barriers, barriers))

\* transition_buffers
transition_buffers(e, barriers) ==
    FlushBarriers("transition_buffers", e, barriers, PushBufferBarriers(<<>>, barriers))

\* transition_textures
transition_textures(e, barriers) ==
    FlushBarriers("transition_textures", e, barriers, PushTextureBarriers(<<>>, barriers))

(***************************************************************************)
(* Render passes.                                                          *)
(***************************************************************************)
\* The view bound as depth-stencil target: none, or the writable or the
\* read-only view of the attachment, by its usage.
ds_view(desc) ==
    IF desc.depth_stencil_attachment = <<>> THEN <<>>
    ELSE LET ds == desc.depth_stencil_attachment[1]
         IN IF ds.target.usage = {"DEPTH_STENCIL_WRITE"}
            THEN <<ds.target.view.handle_dsv_rw>>
            ELSE <<ds.target.view.handle_dsv_ro>>

\* The render-target views of the colour attachments, in order.
color_views(desc) ==
    [i \in DOMAIN desc.color_attachments |-> desc.color_attachments[i].target.view.handle_rtv]

\* The commands of the colour-attachment loop: a clear for every attachment
\* whose ops do not load.
RECURSIVE ColorClears(_)
ColorClears(cats) ==
    IF cats = <<>> THEN <<>>
    ELSE (IF "LOAD" \notin Head(cats).ops
          THEN <<[op |-> "ClearRenderTargetView",
                  view |-> Head(cats).target.view.handle_rtv,
                  color |-> <<Head(cats).clear_value.r, Head(cats).clear_value.g,
                              Head(cats).clear_value.b, Head(cats).clear_value.a>>,
                  rects |-> <<>>]>>
          ELSE <<>>)
         \o ColorClears(Tail(cats))

\* The resolves of the colour-attachment loop: one for every attachment with
\* a resolve target.
RECURSIVE PassResolves(_)
PassResolves(cats) ==
    IF cats = <<>> THEN <<>>
    ELSE (IF Head(cats).resolve_target # <<>>
          THEN <<[src    |-> Head(cats).target.view.target_base,
                  dst    |-> Head(cats).resolve_target[1].view.target_base,
                  format |-> Head(cats).resolve_target[1].view.raw_format]>>
          ELSE <<>>)
         \o PassResolves(Tail(cats))

\* The depth-stencil clear: recorded whenever there is a depth-stencil
\* attachment, with the flags of the aspects whose ops do not load and the
\* stencil value cast to u8.
DepthStencilClear(desc) ==
    IF desc.depth_stencil_attachment = <<>> THEN <<>>
    ELSE LET ds == desc.depth_stencil_attachment[1]
             flags == (IF "LOAD" \notin ds.depth_ops THEN {"DEPTH"} ELSE {})
                      \cup (IF "LOAD" \notin ds.stencil_ops THEN {"STENCIL"} ELSE {})
         IN IF ds_view(desc) # <<>>
            THEN <<[op |-> "ClearDepthStencilView", view |-> ds_view(desc)[1],
                    flags |-> flags, depth |-> ds.clear_value[1],
                    stencil |-> ds.clear_value[2] % 256, rects |-> <<>>]>>
            ELSE <<>>

\* begin_render_pass
begin_render_pass(e, desc) ==
    /\ HasList(e)
    /\ LET rec == begin_pass_cmds(desc.label)
                  \o <<[op |-> "OMSetRenderTargets",
                        NumRenderTargetDescriptors |-> Len(desc.color_attachments),
                        pRenderTargetDescriptors |-> color_views(desc),
                        RTsSingleHandleToDescriptorRange |-> 0,
                        pDepthStencilDescriptor |-> ds_view(desc)]>>
                  \o ColorClears(desc.color_attachments)
                  \o DepthStencilClear(desc)
       IN /\ native' = [native EXCEPT ![list[e][1]] = NativeRecord(@, rec)]
          /\ last' = [Call("begin_render_pass", e, desc, "Ok", <<>>, rec)
                         EXCEPT !.changed = {},
                                !.resolving = PassResolves(desc.color_attachments)]
    /\ temp' = [temp EXCEPT ![e] = begin_pass_temp(@, desc.label)]
    /\ pass' = [pass EXCEPT
                  ![e] = [begin_pass_state(@, "Render", desc.label)
                             EXCEPT !.resolves = PassResolves(desc.color_attachments)]]
    /\ UNCHANGED <<list, free_lists, created, cmdbufs>>

\* end_render_pass: the barriers that take the resolve sources and
\* destinations out of the render-target state, two per resolve.
RECURSIVE ResolveBarriers(_)
ResolveBarriers(resolves) ==
    IF resolves = <<>> THEN <<>>
    ELSE <<TransitionBarrier(Head(resolves).src[1], Head(resolves).src[2],
                             {"RENDER_TARGET"}, {"RESOLVE_SOURCE"}),
           TransitionBarrier(Head(resolves).dst[1], Head(resolves).dst[2],
                             {"RENDER_TARGET"}, {"RESOLVE_DEST"})>>
         \o ResolveBarriers(Tail(resolves))

\* end_render_pass: one ResolveSubresource per resolve.
ResolveCmds(resolves) ==
    [i \in DOMAIN resolves |->
        [op |-> "ResolveSubresource",
         pDstResource |-> resolves[i].dst[1], DstSubresource |-> resolves[i].dst[2],
         pSrcResource |-> resolves[i].src[1], SrcSubresource |-> resolves[i].src[2],
         Format |-> resolves[i].format]]

\* Faulty variant of FlipBarriers: the barriers are left as they are.
FlipBarriers_unflipped(barriers) == barriers

\* end_render_pass: the barriers flipped back, before and after swapped.
FlipBarriers(barriers) ==
    [i \in DOMAIN barriers |->
        [barriers[i] EXCEPT !.StateBefore = barriers[i].StateAfter,
                            !.StateAfter = barriers[i].StateBefore]]

\* end_render_pass; the call record keeps the resolves of the pass as the
\* call's argument.
end_render_pass(e) ==
    /\ HasList(e)
    /\ LET resolves == pass[e].resolves
           barriers == ResolveBarriers(resolves)
           rec == (IF resolves # <<>>
                   THEN <<ResourceBarrier(barriers)>> \o ResolveCmds(resolves)
                        \o <<ResourceBarrier(FlipBarriers(barriers))>>
                   ELSE <<>>)
                  \o end_pass_cmds(pass[e])
       IN /\ native' = [native EXCEPT ![list[e][1]] = NativeRecord(@, rec)]
          /\ temp' = [temp EXCEPT
                        ![e].barriers = IF resolves # <<>> THEN FlipBarriers(barriers) ELSE @]
          /\ last' = Call("end_render_pass", e, resolves, "Ok", <<>>, rec)
    /\ pass' = [pass EXCEPT ![e] = PassClear]
    /\ UNCHANGED <<list, free_lists, created, cmdbufs>>

(***************************************************************************)
(* Pipelines, vertex buffers and draws.                                    *)
(***************************************************************************)
\* The dirty mask is an unsigned integer; bit index of it.
HasBit(mask, index) == (mask \div (2 ^ index)) % 2 = 1

\* mask | (1 << index)
BitOr(mask, index) == IF HasBit(mask, index) THEN mask ELSE mask + 2 ^ index

\* mask ^ (1 << index)
BitXor(mask, index) == IF HasBit(mask, index) THEN mask - 2 ^ index ELSE mask + 2 ^ index

\* trailing_zeros of a mask that is not zero: the index of its lowest set bit
trailing_zeros(mask) ==
    CHOOSE i \in 0..31 : HasBit(mask, i) /\ \A j \in 0..(i - 1) : ~HasBit(mask, j)

\* Faulty variant of RootViewOp: the graphics entry points whatever the pass.
RootViewOp_graphics_only(kind, bvk) ==
    CASE bvk = "Constant"        -> "SetGraphicsRootConstantBufferView"
      [] bvk = "ShaderResource"  -> "SetGraphicsRootShaderResourceView"
      [] bvk = "UnorderedAccess" -> "SetGraphicsRootUnorderedAccessView"

\* The native call that sets a root view of the buffer-view kind bvk in a
\* pass of the given kind.
RootViewOp(kind, bvk) ==
    CASE kind = "Render"  /\ bvk = "Constant"        -> "SetGraphicsRootConstantBufferView"
      [] kind = "Compute" /\ bvk = "Constant"        -> "SetComputeRootConstantBufferView"
      [] kind = "Render"  /\ bvk = "ShaderResource"  -> "SetGraphicsRootShaderResourceView"
      [] kind = "Compute" /\ bvk = "ShaderResource"  -> "SetComputeRootShaderResourceView"
      [] kind = "Render"  /\ bvk = "UnorderedAccess" -> "SetGraphicsRootUnorderedAccessView"
      [] kind = "Compute" /\ bvk = "UnorderedAccess" -> "SetComputeRootUnorderedAccessView"

\* The command update_root_elements records for one root element.
RootElementCmds(kind, index, el) ==
    IF el.tag = "Empty" \/ kind = "Transfer" THEN <<>>
    ELSE IF el.tag = "Table"
    THEN <<[op |-> IF kind = "Render" THEN "SetGraphicsRootDescriptorTable"
                   ELSE "SetComputeRootDescriptorTable",
            index |-> index, descriptor |-> el.descriptor]>>
    ELSE <<[op |-> RootViewOp(kind, el.kind), index |-> index, address |-> el.address]>>

\* Faulty variant of update_root_elements: only the first slot of the range
\* is emitted.
update_root_elements_first_only(p, lo, hi) ==
    IF lo >= hi THEN <<>> ELSE RootElementCmds(p.kind, lo, p.root_elements[lo])

\* update_root_elements over the range lo..hi-1: the commands it records.
RECURSIVE update_root_elements(_, _, _)
update_root_elements(p, lo, hi) ==
    IF lo >= hi THEN <<>>
    ELSE RootElementCmds(p.kind, lo, p.root_elements[lo]) \o update_root_elements(p, lo + 1, hi)

\* Faulty variant of StrideChanges: every slot the pipeline declares a stride
\* for.
StrideChanges_all_declared(p, pipeline) ==
    {i \in VertexSlots : pipeline.vertex_strides[i] # <<>>}

\* set_render_pipeline: the slots whose recorded stride the pipeline changes.
StrideChanges(p, pipeline) ==
    {i \in VertexSlots : /\ pipeline.vertex_strides[i] # <<>>
                         /\ p.vertex_buffers[i].StrideInBytes # pipeline.vertex_strides[i][1]}

RECURSIVE BitOrAll(_, _)
BitOrAll(mask, slots) ==
    IF slots = {} THEN mask
    ELSE LET i == CHOOSE x \in slots : TRUE
         IN BitOrAll(BitOr(mask, i), slots \ {i})

\* set_render_pipeline
set_render_pipeline(e, pipeline) ==
    /\ HasList(e)
    /\ LET p == pass[e]
           rec == (IF p.signature # pipeline.signature
                   THEN <<[op |-> "SetGraphicsRootSignature",
                           signature |-> pipeline.signature]>>
                        \o update_root_elements(p, 0, pipeline.total_root_elements)
                   ELSE <<>>)
                  \o <<[op |-> "SetPipelineState", raw |-> pipeline.raw],
                       [op |-> "IASetPrimitiveTopology", topology |-> pipeline.topology]>>
           slots == StrideChanges(p, pipeline)
       IN /\ native' = [native EXCEPT ![list[e][1]] = NativeRecord(@, rec)]
          /\ pass' = [pass EXCEPT
                ![e].signature = pipeline.signature,
                ![e].vertex_buffers =
                    [i \in VertexSlots |->
                        IF i \in slots
                        THEN [p.vertex_buffers[i] EXCEPT
                                 !.StrideInBytes = pipeline.vertex_strides[i][1]]
                        ELSE p.vertex_buffers[i]],
                ![e].dirty_vertex_buffers = BitOrAll(@, slots)]
          /\ last' = [Call("set_render_pipeline", e, pipeline, "Ok", <<>>, rec)
                         EXCEPT !.changed = @ \cup slots, !.strided = @ \cup slots]
    /\ UNCHANGED <<list, free_lists, temp, created, cmdbufs>>

\* BufferBinding::resolve_address
resolve_address(binding) == binding.buffer.va + binding.offset

\* BufferBinding::resolve_size: the given size, or the rest of the buffer
resolve_size(binding) ==
    IF binding.size # <<>> THEN binding.size[1] ELSE binding.buffer.size - binding.offset

\* set_vertex_buffer; the sizes of the model are below 2^32, where the cast
\* to u32 changes nothing.
set_vertex_buffer(e, index, binding) ==
    /\ pass' = [pass EXCEPT
          ![e].vertex_buffers[index] =
              [@ EXCEPT !.BufferLocation = resolve_address(binding),
                        !.SizeInBytes = resolve_size(binding)],
          ![e].dirty_vertex_buffers = BitOr(@, index)]
    /\ last' = [Call("set_vertex_buffer", e, <<index, binding>>, "Ok", <<>>, <<>>)
                   EXCEPT !.changed = @ \cup {index}, !.vb_set = @ \cup {index}]
    /\ UNCHANGED <<list, free_lists, temp, native, created, cmdbufs>>

\* Faulty variant of prepare_draw: the lowest dirty slot is bound and the mask
\* is dropped.
prepare_draw_lowest_only(p, cmds) ==
    IF p.dirty_vertex_buffers = 0 THEN [pass |-> p, cmds |-> cmds]
    ELSE LET index == trailing_zeros(p.dirty_vertex_buffers)
         IN [pass |-> [p EXCEPT !.dirty_vertex_buffers = 0],
             cmds |-> Append(cmds, [op |-> "IASetVertexBuffers", StartSlot |-> index,
                                    NumViews |-> 1, pViews |-> p.vertex_buffers[index]])]

\* Faulty variant of prepare_draw: the highest dirty slot is taken first.
RECURSIVE prepare_draw_descending(_, _)
prepare_draw_descending(p, cmds) ==
    IF p.dirty_vertex_buffers = 0 THEN [pass |-> p, cmds |-> cmds]
    ELSE LET index == CHOOSE i \in VertexSlots :
                         /\ HasBit(p.dirty_vertex_buffers, i)
                         /\ \A j \in VertexSlots : j > i => ~HasBit(p.dirty_vertex_buffers, j)
         IN prepare_draw_descending(
                [p EXCEPT !.dirty_vertex_buffers = BitXor(@, index)],
                Append(cmds, [op |-> "IASetVertexBuffers", StartSlot |-> index,
                              NumViews |-> 1, pViews |-> p.vertex_buffers[index]]))

\* prepare_draw: while the mask is not zero, the lowest dirty slot is taken
\* off the mask and its view bound; gives the Pass left and the commands
\* recorded after cmds.
RECURSIVE prepare_draw(_, _)
prepare_draw(p, cmds) ==
    IF p.dirty_vertex_buffers = 0 THEN [pass |-> p, cmds |-> cmds]
    ELSE LET index == trailing_zeros(p.dirty_vertex_buffers)
         IN prepare_draw([p EXCEPT !.dirty_vertex_buffers = BitXor(@, index)],
                         Append(cmds, [op |-> "IASetVertexBuffers", StartSlot |-> index,
                                       NumViews |-> 1, pViews |-> p.vertex_buffers[index]]))

\* The body the draws share: prepare_draw, then the native draw cmd.
DrawCall(op, e, arg, cmd) ==
    /\ HasList(e)
    /\ LET prepared == prepare_draw(pass[e], <<>>)
           rec == Append(prepared.cmds, cmd)
       IN /\ native' = [native EXCEPT ![list[e][1]] = NativeRecord(@, rec)]
          /\ pass' = [pass EXCEPT ![e] = prepared.pass]
          /\ last' = Call(op, e, arg, "Ok", <<>>, rec)
    /\ UNCHANGED <<list, free_lists, temp, created, cmdbufs>>

\* ExecuteIndirect as the indirect draws record it.
ExecuteIndirect(signature, max_count, buffer, offset, count_buffer, count_offset) ==
    [op |-> "ExecuteIndirect", pCommandSignature |-> signature,
     MaxCommandCount |-> max_count, pArgumentBuffer |-> buffer,
     ArgumentBufferOffset |-> offset, pCountBuffer |-> count_buffer,
     CountBufferOffset |-> count_offset]

draw(e, start_vertex, vertex_count, start_instance, instance_count) ==
    DrawCall("draw", e, <<start_vertex, vertex_count, start_instance, instance_count>>,
             [op |-> "DrawInstanced", VertexCountPerInstance |-> vertex_count,
              InstanceCount |-> instance_count, StartVertexLocation |-> start_vertex,
              StartInstanceLocation |-> start_instance])

draw_indexed(e, start_index, index_count, base_vertex, start_instance, instance_count) ==
    DrawCall("draw_indexed", e,
             <<start_index, index_count, base_vertex, start_instance, instance_count>>,
             [op |-> "DrawIndexedInstanced", IndexCountPerInstance |-> index_count,
              InstanceCount |-> instance_count, StartIndexLocation |-> start_index,
              BaseVertexLocation |-> base_vertex, StartInstanceLocation |-> start_instance])

draw_indirect(e, buffer, offset, draw_count) ==
    DrawCall("draw_indirect", e, <<buffer, offset, draw_count>>,
             ExecuteIndirect("cmd_signatures.draw", draw_count, <<buffer>>, offset, <<>>, 0))

draw_indexed_indirect(e, buffer, offset, draw_count) ==
    DrawCall("draw_indexed_indirect", e, <<buffer, offset, draw_count>>,
             ExecuteIndirect("cmd_signatures.draw_indexed", draw_count, <<buffer>>, offset,
                             <<>>, 0))

draw_indirect_count(e, buffer, offset, count_buffer, count_offset, max_count) ==
    DrawCall("draw_indirect_count", e,
             <<buffer, offset, count_buffer, count_offset, max_count>>,
             ExecuteIndirect("cmd_signatures.draw", max_count, <<buffer>>, offset,
                             <<count_buffer>>, count_offset))

draw_indexed_indirect_count(e, buffer, offset, count_buffer, count_offset, max_count) ==
    DrawCall("draw_indexed_indirect_count", e,
             <<buffer, offset, count_buffer, count_offset, max_count>>,
             ExecuteIndirect("cmd_signatures.draw_indexed", max_count, <<buffer>>, offset,
                             <<count_buffer>>, count_offset))

(***************************************************************************)
(* Bind groups and the compute pipeline.                                   *)
(***************************************************************************)
\* Faulty variant of BindTables: the sampler table is skipped over, not
\* written.
BindTables_skips_samplers(root_elements, info, group) ==
    LET views == "SRV_CBV_UAV" \in info.tables
        i1 == info.base_root_index
    IN [root_elements |->
            IF views
            THEN [root_elements EXCEPT
                    ![i1] = [tag |-> "Table", descriptor |-> group.handle_views[1]]]
            ELSE root_elements,
        root_index |-> i1 + Cardinality(info.tables)]

\* set_bind_group, invalidation All: the Pass root elements after the two
\* table writes, and the root index after them; the unwrapped handles must
\* be there and the written slots inside the table.
BindTables(root_elements, info, group) ==
    LET views    == "SRV_CBV_UAV" \in info.tables
        samplers == "SAMPLERS" \in info.tables
        i1 == info.base_root_index
        r1 == IF views
              THEN [root_elements EXCEPT
                      ![i1] = [tag |-> "Table", descriptor |-> group.handle_views[1]]]
              ELSE root_elements
        i2 == IF views THEN i1 + 1 ELSE i1
        r2 == IF samplers
              THEN [r1 EXCEPT ![i2] = [tag |-> "Table", descriptor |-> group.handle_samplers[1]]]
              ELSE r1
    IN [root_elements |-> r2, root_index |-> IF samplers THEN i2 + 1 ELSE i2]

\* set_bind_group: the table writes do not abort.
BindTablesOk(info, group) ==
    /\ "SRV_CBV_UAV" \in info.tables =>
          group.handle_views # <<>> /\ info.base_root_index \in RootIndices
    /\ "SAMPLERS" \in info.tables =>
          /\ group.handle_samplers # <<>>
          /\ (info.base_root_index + (IF "SRV_CBV_UAV" \in info.tables THEN 1 ELSE 0))
                \in RootIndices

\* The number of rounds of the dynamic-buffer loop: the zip of the layout's
\* kinds, the group's base addresses and the offsets ends with the shortest.
ZipLen(info, group, dynamic_offsets) ==
    Min(Min(Len(info.dynamic_buffers), Len(group.dynamic_buffers)), Len(dynamic_offsets))

\* Faulty variant of BindDynamicBuffers: the dynamic offset is not added to
\* the base address.
BindDynamicBuffers_no_offset(root_elements, root_index, info, group, dynamic_offsets) ==
    [i \in RootIndices |->
        IF i >= root_index /\ i < root_index + ZipLen(info, group, dynamic_offsets)
        THEN [tag     |-> "DynamicOffsetBuffer",
              kind    |-> info.dynamic_buffers[i - root_index + 1],
              address |-> group.dynamic_buffers[i - root_index + 1]]
        ELSE root_elements[i]]

\* set_bind_group: the root elements after the dynamic-buffer loop that
\* starts at root_index.
BindDynamicBuffers(root_elements, root_index, info, group, dynamic_offsets) ==
    [i \in RootIndices |->
        IF i >= root_index /\ i < root_index + ZipLen(info, group, dynamic_offsets)
        THEN [tag     |-> "DynamicOffsetBuffer",
              kind    |-> info.dynamic_buffers[i - root_index + 1],
              address |-> group.dynamic_buffers[i - root_index + 1]
                          + dynamic_offsets[i - root_index + 1]]
        ELSE root_elements[i]]

\* set_bind_group
set_bind_group(e, layout, index, group, dynamic_offsets, invalidation) ==
    /\ index \in DOMAIN layout.bind_group_infos
    /\ LET info == layout.bind_group_infos[index]
           p == pass[e]
           tabled == IF invalidation = "All"
                     THEN BindTables(p.root_elements, info, group)
                     ELSE [root_elements |-> p.root_elements,
                           root_index |-> info.base_root_index + Cardinality(info.tables)]
           base_update_index == IF invalidation = "All" THEN info.base_root_index
                                ELSE tabled.root_index
           n == ZipLen(info, group, dynamic_offsets)
           root_index == tabled.root_index + n
           written == [p EXCEPT
                         !.root_elements =
                             BindDynamicBuffers(tabled.root_elements, tabled.root_index,
                                                info, group, dynamic_offsets)]
           differs == p.signature # layout.raw
           lo == IF differs THEN 0 ELSE base_update_index
           hi == IF differs THEN layout.total_root_elements ELSE root_index
           rec == update_root_elements(written, lo, hi)
       IN /\ invalidation = "All" => BindTablesOk(info, group)
          /\ n > 0 => (tabled.root_index + n - 1) \in RootIndices
          /\ HasList(e)
          /\ \A i \in lo..(hi - 1) : i \in RootIndices
          /\ pass' = [pass EXCEPT
                        ![e] = [written EXCEPT !.signature = layout.raw]]
          /\ native' = [native EXCEPT ![list[e][1]] = NativeRecord(@, rec)]
          /\ last' = [Call("set_bind_group", e,
                           [layout |-> layout, index |-> index, group |-> group,
                            dynamic_offsets |-> dynamic_offsets,
                            invalidation |-> invalidation],
                           "Ok", <<>>, rec)
                         EXCEPT !.written =
                            @ \cup {i \in RootIndices :
                                       /\ i >= base_update_index /\ i < root_index},
                                !.origin =
                            [i \in RootIndices |->
                                IF i >= base_update_index /\ i < root_index
                                THEN layout.raw ELSE @[i]]]
    /\ UNCHANGED <<list, free_lists, temp, created, cmdbufs>>

\* set_compute_pipeline
set_compute_pipeline(e, pipeline) ==
    /\ HasList(e)
    /\ LET p == pass[e]
           rec == (IF p.signature # pipeline.signature
                   THEN <<[op |-> "SetComputeRootSignature",
                           signature |-> pipeline.signature]>>
                        \o update_root_elements(p, 0, pipeline.total_root_elements)
                   ELSE <<>>)
                  \o <<[op |-> "SetPipelineState", raw |-> pipeline.raw]>>
       IN /\ native' = [native EXCEPT ![list[e][1]] = NativeRecord(@, rec)]
          /\ pass' = [pass EXCEPT ![e].signature = pipeline.signature]
          /\ last' = Call("set_compute_pipeline", e, pipeline, "Ok", <<>>, rec)
    /\ UNCHANGED <<list, free_lists, temp, created, cmdbufs>>

(***************************************************************************)
(* fill_buffer.                                                            *)
(***************************************************************************)
\* super::ZERO_BUFFER_SIZE, the size of the shared zero buffer: 256 KiB
ZERO_BUFFER_SIZE == 262144

\* Faulty variant of FillCopies: every copy has the size of the zero buffer.
RECURSIVE FillCopies_full_chunks(_, _, _)
FillCopies_full_chunks(buffer, offset, end) ==
    IF ~(offset < end) THEN <<>>
    ELSE <<[op |-> "CopyBufferRegion", pDstBuffer |-> buffer, DstOffset |-> offset,
            pSrcBuffer |-> "zero_buffer", SrcOffset |-> 0, NumBytes |-> ZERO_BUFFER_SIZE]>>
         \o FillCopies_full_chunks(buffer, offset + ZERO_BUFFER_SIZE, end)

\* The loop of fill_buffer from offset: the copies it records.
RECURSIVE FillCopies(_, _, _)
FillCopies(buffer, offset, end) ==
    IF ~(offset < end) THEN <<>>
    ELSE LET size == Min(ZERO_BUFFER_SIZE, end - offset)
         IN <<[op |-> "CopyBufferRegion", pDstBuffer |-> buffer, DstOffset |-> offset,
               pSrcBuffer |-> "zero_buffer", SrcOffset |-> 0, NumBytes |-> size]>>
            \o FillCopies(buffer, offset + size, end)

\* fill_buffer: the assertion on the value aborts the call before anything
\* else is done; the call record of an aborted call has ret "Abort".
fill_buffer(e, buffer, range, value) ==
    IF value # 0
    THEN /\ last' = Call("fill_buffer", e,
                         [buffer |-> buffer, range |-> range, value |-> value],
                         "Abort", <<>>, <<>>)
         /\ UNCHANGED <<list, free_lists, temp, pass, native, created, cmdbufs>>
    ELSE /\ HasList(e)
         /\ LET rec == FillCopies(buffer, range.start, range.end)
            IN /\ native' = [native EXCEPT ![list[e][1]] = NativeRecord(@, rec)]
               /\ last' = Call("fill_buffer", e,
                               [buffer |-> buffer, range |-> range, value |-> value],
                               "Ok", <<>>, rec)
         /\ UNCHANGED <<list, free_lists, temp, pass, created, cmdbufs>>

(***************************************************************************)
(* Inputs of the transition calls.                                         *)
(***************************************************************************)
UsagePairs(uses) == [start : uses, end : uses]

BufferBarrierInputs == [buffer : Buffers, usage : UsagePairs(BufferUsesSet)]

\* The ranges that lie inside texture t; a count is <<>> (None) or <<n>>.
TextureRanges(t) ==
    { r \in [ aspect            : {"All", "DepthOnly", "StencilOnly"},
              base_mip_level    : 0..(t.mip_level_count - 1),
              mip_level_count   : {<<>>} \cup {<<c>> : c \in 1..t.mip_level_count},
              base_array_layer  : 0..(t.array_layer_count - 1),
              array_layer_count : {<<>>} \cup {<<c>> : c \in 1..t.array_layer_count} ] :
        /\ r.mip_level_count # <<>> =>
             r.base_mip_level + r.mip_level_count[1] <= t.mip_level_count
        /\ r.array_layer_count # <<>> =>
             r.base_array_layer + r.array_layer_count[1] <= t.array_layer_count }

TextureBarrierInputs ==
    UNION { [texture : {t}, range : TextureRanges(t), usage : UsagePairs(TextureUsesSet)] :
            t \in Textures }

\* The inputs that longer input lists are made of.
SelectedBufferBarriers ==
    { b \in BufferBarrierInputs :
        \/ b.buffer = "b1" /\ b.usage = [start |-> {"COPY_SRC"}, end |-> {"STORAGE_WRITE"}]
        \/ b.buffer = "b2" /\ b.usage = [start |-> {"STORAGE_WRITE"}, end |-> {"STORAGE_WRITE"}]
        \/ b.buffer = "b1" /\ b.usage = [start |-> {"VERTEX"}, end |-> {"VERTEX"}] }

SelectedTextureBarriers ==
    { b \in TextureBarrierInputs :
        \/ /\ b.texture.resource = "t1"
           /\ b.range.aspect = "All"
           /\ b.range.base_mip_level = 0 /\ b.range.base_array_layer = 0
           /\ b.range.mip_level_count \in {<<>>, <<1>>}
           /\ b.range.array_layer_count = <<>>
           /\ b.usage = [start |-> {"COLOR_TARGET"}, end |-> {"COPY_DST"}]
        \/ /\ b.texture.resource = "t2"
           /\ b.range.aspect = "All"
           /\ b.range.mip_level_count = <<>> /\ b.range.array_layer_count = <<>>
           /\ b.usage = [start |-> {"STORAGE_WRITE"}, end |-> {"STORAGE_WRITE"}] }

SeqsOf(S, lo, hi) == UNION {[1..n -> S] : n \in lo..hi}

\* The input lists: empty, every single input, and lists of the selected ones.
BufferBarrierLists ==
    SeqsOf(BufferBarrierInputs, 0, 1) \cup SeqsOf(SelectedBufferBarriers, 2, MaxBarriers)

TextureBarrierLists ==
    SeqsOf(TextureBarrierInputs, 0, 1) \cup SeqsOf(SelectedTextureBarriers, 2, MaxBarriers)

(***************************************************************************)
(* Inputs of the render passes and the draws.                              *)
(***************************************************************************)
\* render passes begun, barrier batches recorded and commands recorded by
\* draws on the open list before the caller stops
MaxPasses == 1
MaxBatches == 3
MaxDrawCmds == 5

\* A texture view: its render-target handle, the (resource, subresource) it
\* targets, its format.
TextureView(handle_rtv, resource, subresource) ==
    [handle_rtv |-> handle_rtv, target_base |-> <<resource, subresource>>,
     raw_format |-> "R8G8B8A8_UNORM"]

Target(view) == [view |-> view, usage |-> {"COLOR_TARGET"}]

ClearValue == [r |-> 0, g |-> 0, b |-> 0, a |-> 1]

AttachmentOpsSet == {{}, {"LOAD", "STORE"}}

ColorAttachments ==
    [ target         : {Target(TextureView("rtv_ms", "t1", 0))},
      resolve_target : {<<>>, <<Target(TextureView("rtv_rs", "t2", 0))>>},
      ops            : AttachmentOpsSet,
      clear_value    : {ClearValue} ]

\* Two colour attachments that both resolve.
TwoResolves ==
    << [target |-> Target(TextureView("rtv_ms", "t1", 0)),
        resolve_target |-> <<Target(TextureView("rtv_rs", "t2", 0))>>,
        ops |-> {"LOAD", "STORE"}, clear_value |-> ClearValue],
       [target |-> Target(TextureView("rtv_ms1", "t1", 1)),
        resolve_target |-> <<Target(TextureView("rtv_rs1", "t3", 0))>>,
        ops |-> {}, clear_value |-> ClearValue] >>

\* The clear value of a depth-stencil attachment is (depth, stencil); the
\* stencil value of the model does not fit a u8.
DepthStencilAttachments ==
    [ target       : [view  : {[handle_dsv_rw |-> "dsv_rw", handle_dsv_ro |-> "dsv_ro"]},
                      usage : {{"DEPTH_STENCIL_WRITE"}, {"DEPTH_STENCIL_READ"}}],
      depth_ops    : AttachmentOpsSet,
      stencil_ops  : AttachmentOpsSet,
      clear_value  : {<<1, 257>>} ]

RenderPassDescriptors ==
    [ label                    : Labels,
      color_attachments        : SeqsOf(ColorAttachments, 0, 1) \cup {TwoResolves},
      depth_stencil_attachment : {<<>>} \cup {<<ds>> : ds \in DepthStencilAttachments} ]

\* The unlabelled passes without depth-stencil attachment that load, with no,
\* one and two resolves.
ResolvePassDescriptors ==
    { desc \in RenderPassDescriptors :
        /\ desc.label = <<>>
        /\ desc.depth_stencil_attachment = <<>>
        /\ \/ desc.color_attachments = TwoResolves
           \/ \A i \in DOMAIN desc.color_attachments :
                 desc.color_attachments[i].ops # {} }

\* The unlabelled pass of one loaded colour attachment.
DrawPassDescriptors ==
    { desc \in ResolvePassDescriptors :
        /\ Len(desc.color_attachments) = 1
        /\ desc.color_attachments[1].resolve_target = <<>> }

\* The transition calls made around render passes.
PassBufferBarrierLists ==
    { <<>>,
      <<[buffer |-> "b1", usage |-> [start |-> {"VERTEX"}, end |-> {"VERTEX"}]]>>,
      <<[buffer |-> "b1", usage |-> [start |-> {"COPY_SRC"}, end |-> {"STORAGE_WRITE"}]]>> }

WholeRange ==
    [aspect |-> "All", base_mip_level |-> 0, mip_level_count |-> <<>>,
     base_array_layer |-> 0, array_layer_count |-> <<>>]

PassTextureBarrierLists ==
    { <<[texture |-> Texture1, range |-> WholeRange,
         usage |-> [start |-> {"COLOR_TARGET"}, end |-> {"COPY_DST"}]]>>,
      <<[texture |-> Texture2, range |-> WholeRange,
         usage |-> [start |-> {"STORAGE_WRITE"}, end |-> {"STORAGE_WRITE"}]]>> }

VertexBufferObject == [va |-> 4096, size |-> 256]

VertexBindings ==
    { [buffer |-> VertexBufferObject, offset |-> 0, size |-> <<>>],
      [buffer |-> VertexBufferObject, offset |-> 64, size |-> <<128>>] }

\* vertex_strides gives every slot its stride, <<>> (None) or <<n>>.
RenderPipelines ==
    { [raw |-> "pso1", signature |-> "sig1", total_root_elements |-> 3,
       topology |-> "TRIANGLELIST", vertex_strides |-> (0 :> <<4>> @@ 1 :> <<>>)],
      [raw |-> "pso2", signature |-> "sig2", total_root_elements |-> 2,
       topology |-> "TRIANGLESTRIP", vertex_strides |-> (0 :> <<8>> @@ 1 :> <<4>>)] }

\* The number of commands among ops that encoder e's open list holds.
OnList(e, ops) ==
    IF list[e] = <<>> THEN 0
    ELSE Cardinality({i \in DOMAIN native[list[e][1]].cmds :
                         native[list[e][1]].cmds[i].op \in ops})

DrawCmdOps == {"DrawInstanced", "DrawIndexedInstanced", "ExecuteIndirect"}

\* The number of commands that encoder e's open list holds.
Recorded(e) == IF list[e] = <<>> THEN 0 ELSE Len(native[list[e][1]].cmds)

(***************************************************************************)
(* Inputs of the bind-group calls.                                         *)
(***************************************************************************)
\* commands on the open list before the caller stops binding
MaxBindCmds == 5

\* A layout: its root signature, the length of its root table, and for
\* every group index the group's first root slot, its descriptor tables and
\* the kinds of its dynamic buffers.
Layout1 ==
    [raw |-> "sig1", total_root_elements |-> 3,
     bind_group_infos |->
        (0 :> [base_root_index |-> 0, tables |-> {"SRV_CBV_UAV"},
               dynamic_buffers |-> <<"Constant">>]
         @@ 1 :> [base_root_index |-> 2, tables |-> {"SAMPLERS"},
                  dynamic_buffers |-> <<>>])]

Layout2 ==
    [raw |-> "sig2", total_root_elements |-> 2,
     bind_group_infos |->
        (0 :> [base_root_index |-> 0, tables |-> {},
               dynamic_buffers |-> <<"UnorderedAccess", "ShaderResource">>])]

\* A bind group: its table handles (<<>> is None) and the base addresses of
\* its dynamic buffers.
Group1 ==
    [handle_views |-> <<"views1">>, handle_samplers |-> <<"samplers1">>,
     dynamic_buffers |-> <<8192>>]

Group2 ==
    [handle_views |-> <<>>, handle_samplers |-> <<>>,
     dynamic_buffers |-> <<12288, 16384>>]

DynamicOffsetLists == {<<>>, <<256>>, <<0, 512>>}

Invalidations == {"All", "DynamicOffsetsOnly"}

\* The set_bind_group calls: a group of the layout it was made for, with
\* any of the offset lists for the groups that have dynamic buffers.
BindCalls ==
    [layout : {Layout1}, index : {0}, group : {Group1},
     dynamic_offsets : DynamicOffsetLists, invalidation : Invalidations]
    \cup [layout : {Layout1}, index : {1}, group : {Group1},
          dynamic_offsets : {<<>>}, invalidation : Invalidations]
    \cup [layout : {Layout2}, index : {0}, group : {Group2},
          dynamic_offsets : DynamicOffsetLists, invalidation : Invalidations]

ComputePipelines ==
    { [raw |-> "cso1", signature |-> "sig1", total_root_elements |-> 3],
      [raw |-> "cso2", signature |-> "sig2", total_root_elements |-> 2] }

(***************************************************************************)
(* Specifications.                                                         *)
(***************************************************************************)
Init ==
    /\ list = [e \in Encoders |-> <<>>]
    /\ free_lists = [e \in Encoders |-> <<>>]
    /\ temp = [e \in Encoders |-> TempClear]
    /\ pass = [e \in Encoders |-> PassNew]
    /\ native = [h \in Handles |-> NoList]
    /\ created = 0
    /\ cmdbufs = {}
    /\ last = NoCall

\* The lifecycle of one encoder, its lists left unnamed.
Next ==
    \/ \E label \in {<<>>} : begin_encoding("e1", label)
    \/ discard_encoding("e1")
    \/ end_encoding("e1")
    \/ \E bufs \in CommandBufferSeqs : reset_all("e1", bufs)
    \/ Budget /\ \E label \in Labels : begin_compute_pass("e1", label)
    \/ Budget /\ end_compute_pass("e1")

Spec == Init /\ [][Next]_vars

\* The first encoder has just opened an encoding.
JustBegun == last.op = "begin_encoding" /\ last.ret = "Ok" /\ last.e = "e1"

\* One transition call in an encoding: the caller opens an encoding when none
\* is open, makes one transition call, and discards the encoding.
NextBarriers ==
    \/ list["e1"] = <<>> /\ \E label \in Labels : begin_encoding("e1", label)
    \/ discard_encoding("e1")
    \/ JustBegun /\ \E barriers \in BufferBarrierLists : transition_buffers("e1", barriers)
    \/ JustBegun /\ \E barriers \in TextureBarrierLists : transition_textures("e1", barriers)

SpecBarriers == Init /\ [][NextBarriers]_vars

PassesLeft == OnList("e1", {"OMSetRenderTargets"}) < MaxPasses
BatchesLeft == OnList("e1", {"ResourceBarrier"}) < MaxBatches

\* Transition calls and render passes with resolves in one encoding.
NextPasses ==
    \/ list["e1"] = <<>> /\ begin_encoding("e1", <<>>)
    \/ /\ PassesLeft /\ pass["e1"].kind = "Transfer"
       /\ \E desc \in ResolvePassDescriptors : begin_render_pass("e1", desc)
    \/ BatchesLeft /\ pass["e1"].kind = "Render" /\ end_render_pass("e1")
    \/ /\ BatchesLeft /\ HasList("e1")
       /\ \E barriers \in PassBufferBarrierLists : transition_buffers("e1", barriers)
    \/ /\ BatchesLeft /\ HasList("e1")
       /\ \E barriers \in PassTextureBarrierLists : transition_textures("e1", barriers)

SpecPasses == Init /\ [][NextPasses]_vars

\* Render passes of every descriptor, begun and ended in one encoding.
NextClears ==
    \/ list["e1"] = <<>> /\ begin_encoding("e1", <<>>)
    \/ /\ PassesLeft /\ pass["e1"].kind = "Transfer"
       /\ \E desc \in RenderPassDescriptors : begin_render_pass("e1", desc)
    \/ pass["e1"].kind = "Render" /\ end_render_pass("e1")

SpecClears == Init /\ [][NextClears]_vars

\* The caller records draws while the open list holds fewer than MaxDrawCmds
\* commands.
DrawBudget == Recorded("e1") < MaxDrawCmds
InRenderPass == pass["e1"].kind = "Render"

\* Vertex buffers, pipelines and draws in the render passes of one encoding.
NextDraw ==
    \/ list["e1"] = <<>> /\ begin_encoding("e1", <<>>)
    \/ /\ DrawBudget /\ pass["e1"].kind = "Transfer"
       /\ \E desc \in DrawPassDescriptors : begin_render_pass("e1", desc)
    \/ DrawBudget /\ InRenderPass /\ end_render_pass("e1")
    \/ /\ InRenderPass
       /\ \E index \in VertexSlots, binding \in VertexBindings :
             set_vertex_buffer("e1", index, binding)
    \/ /\ DrawBudget /\ InRenderPass
       /\ \E pipeline \in RenderPipelines : set_render_pipeline("e1", pipeline)
    \/ DrawBudget /\ InRenderPass /\ draw("e1", 0, 3, 0, 1)
    \/ DrawBudget /\ InRenderPass /\ draw_indexed("e1", 0, 3, 0, 0, 1)
    \/ DrawBudget /\ InRenderPass /\ draw_indirect("e1", "b1", 0, 1)
    \/ DrawBudget /\ InRenderPass /\ draw_indexed_indirect("e1", "b1", 0, 1)
    \/ DrawBudget /\ InRenderPass /\ draw_indirect_count("e1", "b1", 0, "b2", 0, 1)
    \/ DrawBudget /\ InRenderPass /\ draw_indexed_indirect_count("e1", "b1", 0, "b2", 0, 1)

SpecDraw == Init /\ [][NextDraw]_vars

\* pipelines set and draws made in one encoding before the caller stops
MaxPipelineSets == 2
MaxDraws == 1

PipelineSetsLeft == OnList("e1", {"SetPipelineState"}) < MaxPipelineSets
DrawsLeft == OnList("e1", DrawCmdOps) < MaxDraws

\* Pipelines, vertex buffers and draws in the one render pass of an
\* encoding, a draw after a pipeline change, after a vertex-buffer change or
\* after none.
NextStride ==
    \/ list["e1"] = <<>> /\ begin_encoding("e1", <<>>)
    \/ /\ HasList("e1") /\ Recorded("e1") = 0
       /\ \E desc \in DrawPassDescriptors : begin_render_pass("e1", desc)
    \/ /\ InRenderPass /\ HasList("e1")
       /\ \E index \in VertexSlots, binding \in {x \in VertexBindings : x.offset = 0} :
             set_vertex_buffer("e1", index, binding)
    \/ /\ PipelineSetsLeft /\ InRenderPass
       /\ \E pipeline \in RenderPipelines : set_render_pipeline("e1", pipeline)
    \/ DrawsLeft /\ InRenderPass /\ draw("e1", 0, 3, 0, 1)

SpecStride == Init /\ [][NextStride]_vars

BindBudget == Recorded("e1") < MaxBindCmds
InComputePass == pass["e1"].kind = "Compute"

\* Bind groups and pipelines in the render and compute passes of one
\* encoding.
NextBind ==
    \/ list["e1"] = <<>> /\ begin_encoding("e1", <<>>)
    \/ /\ BindBudget /\ pass["e1"].kind = "Transfer"
       /\ \E desc \in DrawPassDescriptors : begin_render_pass("e1", desc)
    \/ BindBudget /\ InRenderPass /\ end_render_pass("e1")
    \/ BindBudget /\ pass["e1"].kind = "Transfer" /\ begin_compute_pass("e1", <<>>)
    \/ BindBudget /\ InComputePass /\ end_compute_pass("e1")
    \/ /\ BindBudget /\ (InRenderPass \/ InComputePass)
       /\ \E c \in BindCalls :
             set_bind_group("e1", c.layout, c.index, c.group, c.dynamic_offsets,
                            c.invalidation)
    \/ /\ BindBudget /\ InRenderPass
       /\ \E pipeline \in RenderPipelines : set_render_pipeline("e1", pipeline)
    \/ /\ BindBudget /\ InComputePass
       /\ \E pipeline \in ComputePipelines : set_compute_pipeline("e1", pipeline)
    \/ BindBudget /\ InRenderPass /\ draw("e1", 0, 3, 0, 1)
    \/ BindBudget /\ InComputePass /\ dispatch("e1", <<1, 1, 1>>)

SpecBind == Init /\ [][NextBind]_vars

\* commands on the open list before the caller stops beginning and ending
\* passes
MaxResetCmds == 9

ResetBudget == Recorded("e1") < MaxResetCmds

\* The passes begun with one resolve or with none.
ResetPassDescriptors ==
    { desc \in ResolvePassDescriptors : Len(desc.color_attachments) = 1 }

ResetBindCalls ==
    { c \in BindCalls :
        /\ c.invalidation = "All"
        /\ Len(c.dynamic_offsets) = Len(c.layout.bind_group_infos[c.index].dynamic_buffers)
        /\ c.index = 0 }

\* Passes one after the other in one encoding, each with bind groups,
\* pipelines, vertex buffers and draws.
NextReset ==
    \/ list["e1"] = <<>> /\ begin_encoding("e1", <<>>)
    \/ /\ ResetBudget /\ pass["e1"].kind = "Transfer"
       /\ \E desc \in ResetPassDescriptors : begin_render_pass("e1", desc)
    \/ ResetBudget /\ InRenderPass /\ end_render_pass("e1")
    \/ ResetBudget /\ pass["e1"].kind = "Transfer" /\ begin_compute_pass("e1", <<>>)
    \/ ResetBudget /\ InComputePass /\ end_compute_pass("e1")
    \/ /\ ResetBudget /\ (InRenderPass \/ InComputePass)
       /\ \E c \in ResetBindCalls :
             set_bind_group("e1", c.layout, c.index, c.group, c.dynamic_offsets,
                            c.invalidation)
    \/ /\ ResetBudget /\ InRenderPass
       /\ \E pipeline \in {x \in RenderPipelines : x.raw = "pso1"} :
             set_render_pipeline("e1", pipeline)
    \/ /\ ResetBudget /\ InComputePass
       /\ \E pipeline \in {x \in ComputePipelines : x.raw = "cso2"} :
             set_compute_pipeline("e1", pipeline)
    \/ /\ InRenderPass /\ HasList("e1")
       /\ \E binding \in {x \in VertexBindings : x.offset = 0} :
             set_vertex_buffer("e1", 1, binding)
    \/ ResetBudget /\ InRenderPass /\ draw("e1", 0, 3, 0, 1)

SpecReset == Init /\ [][NextReset]_vars

\* commands on the open list before the caller stops filling
MaxFillCmds == 3

\* The ranges filled: empty, one byte, around one and two chunks and longer,
\* from the start of the buffer and from inside it.
FillRanges ==
    { [start |-> start, end |-> start + len] :
        start \in {0, 7},
        len \in {0, 1, ZERO_BUFFER_SIZE - 1, ZERO_BUFFER_SIZE, ZERO_BUFFER_SIZE + 1,
                 2 * ZERO_BUFFER_SIZE, 3 * ZERO_BUFFER_SIZE + 1} }

\* Buffer fills in one encoding.
NextFill ==
    \/ list["e1"] = <<>> /\ begin_encoding("e1", <<>>)
    \/ HasList("e1") /\ discard_encoding("e1")
    \/ /\ Recorded("e1") < MaxFillCmds /\ HasList("e1")
       /\ \E range \in FillRanges, value \in {0, 1} : fill_buffer("e1", "b1", range, value)

SpecFill == Init /\ [][NextFill]_vars

\* Draws made while an encoding is open and no render pass is.
NextDrawOutside ==
    \/ list["e1"] = <<>> /\ begin_encoding("e1", <<>>)
    \/ HasList("e1") /\ discard_encoding("e1")
    \/ DrawBudget /\ pass["e1"].kind = "Transfer" /\ begin_compute_pass("e1", <<>>)
    \/ DrawBudget /\ InComputePass /\ end_compute_pass("e1")
    \/ DrawBudget /\ ~InRenderPass /\ draw("e1", 0, 3, 0, 1)
    \/ DrawBudget /\ ~InRenderPass /\ draw_indexed("e1", 0, 3, 0, 0, 1)
    \/ DrawBudget /\ ~InRenderPass /\ draw_indirect("e1", "b1", 0, 1)
    \/ DrawBudget /\ ~InRenderPass /\ draw_indexed_indirect("e1", "b1", 0, 1)
    \/ DrawBudget /\ ~InRenderPass /\ draw_indirect_count("e1", "b1", 0, "b2", 0, 1)
    \/ DrawBudget /\ ~InRenderPass /\ draw_indexed_indirect_count("e1", "b1", 0, "b2", 0, 1)

SpecDrawOutside == Init /\ [][NextDrawOutside]_vars

\* Bind groups set inside render and compute passes and outside any pass,
\* and pipelines set inside their passes.
NextFlush ==
    \/ list["e1"] = <<>> /\ begin_encoding("e1", <<>>)
    \/ /\ BindBudget /\ pass["e1"].kind = "Transfer"
       /\ \E desc \in DrawPassDescriptors : begin_render_pass("e1", desc)
    \/ BindBudget /\ InRenderPass /\ end_render_pass("e1")
    \/ BindBudget /\ pass["e1"].kind = "Transfer" /\ begin_compute_pass("e1", <<>>)
    \/ BindBudget /\ InComputePass /\ end_compute_pass("e1")
    \/ /\ BindBudget /\ HasList("e1")
       /\ \E c \in IF pass["e1"].kind = "Transfer" THEN ResetBindCalls ELSE BindCalls :
             set_bind_group("e1", c.layout, c.index, c.group, c.dynamic_offsets,
                            c.invalidation)
    \/ /\ BindBudget /\ InRenderPass
       /\ \E pipeline \in RenderPipelines : set_render_pipeline("e1", pipeline)
    \/ /\ BindBudget /\ InComputePass
       /\ \E pipeline \in ComputePipelines : set_compute_pipeline("e1", pipeline)

SpecFlush == Init /\ [][NextFlush]_vars

\* commands on the open list before the caller stops recording in an
\* encoding
MaxRestartCmds == 7

RestartBudget == Recorded("e1") < MaxRestartCmds

\* A labelled pass of one loaded colour attachment that resolves.
RestartPassDescriptors ==
    { [label |-> <<LabelText>>,
       color_attachments |->
          << [target |-> Target(TextureView("rtv_ms", "t1", 0)),
              resolve_target |-> <<Target(TextureView("rtv_rs", "t2", 0))>>,
              ops |-> {"LOAD", "STORE"}, clear_value |-> ClearValue] >>,
       depth_stencil_attachment |-> <<>>] }

RestartBindCalls == { c \in ResetBindCalls : c.layout = Layout1 }

\* Encodings one after the other on one encoder, each ended or discarded at
\* any point, in the middle of a pass too; the command buffer of an ended
\* encoding comes back through reset_all before the next encoding begins.
NextRestart ==
    \/ list["e1"] = <<>> /\ cmdbufs = {} /\ begin_encoding("e1", <<>>)
    \/ HasList("e1") /\ discard_encoding("e1")
    \/ end_encoding("e1")
    \/ \E bufs \in CommandBufferSeqs : bufs # <<>> /\ reset_all("e1", bufs)
    \/ /\ RestartBudget /\ pass["e1"].kind = "Transfer"
       /\ \E desc \in RestartPassDescriptors : begin_render_pass("e1", desc)
    \/ RestartBudget /\ InRenderPass /\ end_render_pass("e1")
    \/ /\ RestartBudget /\ InRenderPass
       /\ \E c \in RestartBindCalls :
             set_bind_group("e1", c.layout, c.index, c.group, c.dynamic_offsets,
                            c.invalidation)
    \/ /\ RestartBudget /\ InRenderPass
       /\ \E pipeline \in {x \in RenderPipelines : x.raw = "pso1"} :
             set_render_pipeline("e1", pipeline)
    \/ /\ InRenderPass /\ HasList("e1")
       /\ \E binding \in {x \in VertexBindings : x.offset = 0} :
             set_vertex_buffer("e1", 1, binding)
    \/ RestartBudget /\ InRenderPass /\ draw("e1", 0, 3, 0, 1)

SpecRestart == Init /\ [][NextRestart]_vars

\* commands on the open list before the caller stops beginning and ending
\* labelled and unlabelled passes
MaxLabelCmds == 10

LabelBudget == Recorded("e1") < MaxLabelCmds

\* Render and compute passes, with a label and without, one after the other
\* in one encoding.
NextLabels ==
    \/ list["e1"] = <<>> /\ begin_encoding("e1", <<>>)
    \/ /\ LabelBudget /\ pass["e1"].kind = "Transfer"
       /\ \E desc \in RestartPassDescriptors \cup DrawPassDescriptors :
             begin_render_pass("e1", desc)
    \/ InRenderPass /\ end_render_pass("e1")
    \/ /\ LabelBudget /\ pass["e1"].kind = "Transfer"
       /\ \E label \in Labels : begin_compute_pass("e1", label)
    \/ InComputePass /\ end_compute_pass("e1")

SpecLabels == Init /\ [][NextLabels]_vars

\* The lifecycles of two encoders interleaved; a command buffer goes to
\* the reset_all of either encoder, whichever encoder produced it.
NextTwo ==
    \/ \E e \in Encoders : begin_encoding(e, <<>>)
    \/ \E e \in Encoders : discard_encoding(e)
    \/ \E e \in Encoders : end_encoding(e)
    \/ \E e \in Encoders : \E bufs \in CommandBufferSeqs : reset_all(e, bufs)

SpecTwo == Init /\ [][NextTwo]_vars

(***************************************************************************)
(* Lifecycle properties.                                                   *)
(***************************************************************************)
OpenLists == {h \in Handles : native[h].state = "recording"}

Pooled(h) == \E e \in Encoders : h \in SeqRange(free_lists[e])

Open(h) == \E e \in Encoders : list[e] = <<h>>

\* C1: after any sequence of lifecycle calls on one encoder, begin_encoding
\* while a list is open included, at most one native list obtained by the
\* encoder is in the recording state.  (Spec drives one encoder, so every
\* list was obtained by it.)
C1_AtMostOneOpenList == Cardinality(OpenLists) <= 1

\* C2: a list handed out by end_encoding stays closed, is not the open list
\* of any encoder and is in no pool for as long as the caller holds its
\* command buffer; reset_all is what puts it into the pool.
C2_HandedOutNotReused ==
    /\ \A h \in cmdbufs :
          /\ native[h].state = "closed"
          /\ ~Open(h)
          /\ ~Pooled(h)
    /\ last.op = "reset_all" =>
          \A i \in DOMAIN last.arg :
              /\ last.arg[i] \in SeqRange(free_lists[last.e])
              /\ last.arg[i] \notin cmdbufs

\* A later begin_encoding has opened a list while the caller still holds a
\* command buffer.
C2_Witness ==
    /\ cmdbufs # {}
    /\ last.op = "begin_encoding"
    /\ last.ret = "Ok"
    /\ list["e1"] # <<>>

\* C3: begin_encoding fails only with an empty pool; with a pool that is not
\* empty it succeeds and creates nothing; a failed call leaves the open
\* list, the pool, Temp, Pass and every native list as they were.
C3_BeginEncodingError ==
    [][last'.op = "begin_encoding" /\ last' # last =>
         /\ last'.ret = "DeviceError" =>
               /\ free_lists[last'.e] = <<>>
               /\ UNCHANGED <<list, free_lists, temp, pass, native, created, cmdbufs>>
         /\ free_lists[last'.e] # <<>> =>
               /\ last'.ret = "Ok"
               /\ created' = created]_vars

\* A begin_encoding has failed on an encoder with an open list, a marker in
\* Temp and a pass open.
C3_Witness ==
    /\ last.op = "begin_encoding"
    /\ last.ret = "DeviceError"
    /\ list["e1"] # <<>>
    /\ temp["e1"] # TempClear
    /\ pass["e1"] # PassNew

\* C4: end_encoding right after a successful begin_encoding hands out a
\* list that is closed and holds no command, and leaves the encoder without
\* an open list, whatever the list held when it was taken from the pool.
C4_EmptyRoundTrip ==
    (last.op = "end_encoding" /\ last.prev.op = "begin_encoding" /\ last.prev.h # <<>>) =>
        /\ last.out = last.prev.h
        /\ native[last.out[1]].state = "closed"
        /\ native[last.out[1]].cmds = <<>>
        /\ last.out[1] \in cmdbufs
        /\ list[last.e] = <<>>

\* The round trip was made with a list taken from the pool that held
\* commands of an earlier encoding.
C4_Witness ==
    /\ last.op = "end_encoding"
    /\ last.prev.op = "begin_encoding"
    /\ last.prev.held
    /\ native[last.out[1]].cmds = <<>>

IsTransitionCall == last.op \in {"transition_buffers", "transition_textures"}

\* The barriers of the batch the last call recorded.
Batch == IF last.rec = <<>> THEN <<>> ELSE last.rec[1].pBarriers

BufferStates(b) ==
    [before |-> map_buffer_usage_to_state(b.usage.start),
     after  |-> map_buffer_usage_to_state(b.usage.end)]

TextureStates(b) ==
    [before |-> map_texture_usage_to_state(b.usage.start),
     after  |-> map_texture_usage_to_state(b.usage.end)]

\* The range is the texture's full extent: all aspects, every mip level,
\* every array layer.
FullExtent(b) ==
    /\ b.range.aspect = "All"
    /\ b.range.base_mip_level = 0
    /\ b.range.base_array_layer = 0
    /\ RangeMips(b) = b.texture.mip_level_count
    /\ RangeLayers(b) = b.texture.array_layer_count

\* What C6 says of the barriers seg emitted for the texture input b.
C6_Input(b, seg) ==
    TextureStates(b).before # TextureStates(b).after =>
        IF FullExtent(b)
        THEN seg = <<TransitionBarrier(b.texture.resource, ALL_SUBRESOURCES,
                                       TextureStates(b).before, TextureStates(b).after)>>
        ELSE /\ Len(seg) = RangeMips(b) * RangeLayers(b)
             /\ \A i \in DOMAIN seg :
                  /\ seg[i].Type = "TRANSITION"
                  /\ seg[i].pResource = b.texture.resource
                  /\ seg[i].Subresource # ALL_SUBRESOURCES
             /\ \A m \in 0..(RangeMips(b) - 1), l \in 0..(RangeLayers(b) - 1) :
                  Cardinality({i \in DOMAIN seg :
                      seg[i].Subresource =
                          calc_subresource(b.texture, b.range.base_mip_level + m,
                                           b.range.base_array_layer + l, 0)}) = 1

RECURSIVE C6_Inputs(_, _)
C6_Inputs(inputs, batch) ==
    IF inputs = <<>> THEN batch = <<>>
    ELSE \E k \in 0..Len(batch) :
            /\ C6_Input(Head(inputs), SubSeq(batch, 1, k))
            /\ C6_Inputs(Tail(inputs), SubSeq(batch, k + 1, Len(batch)))

\* C6: transition_textures emits, for each input whose states differ, one
\* transition addressed to all subresources when the range is the texture's
\* full extent, and for any smaller range of M mips and N layers M*N
\* transitions, one per (mip level, array layer) pair, each addressed to that
\* one subresource.
C6_TextureBarrierCount ==
    last.op = "transition_textures" => C6_Inputs(last.arg, Batch)

\* What C7 says of the barriers seg emitted for an input of resource res with
\* usages u and states st.
C7_Input(res, u, st, seg) ==
    /\ (u.start = u.end /\ u.start # {"STORAGE_WRITE"}) => seg = <<>>
    /\ (u.start = u.end /\ u.start = {"STORAGE_WRITE"}) => seg = <<UAVBarrier(res)>>
    /\ st.before # st.after =>
          /\ seg # <<>>
          /\ \A i \in DOMAIN seg :
                /\ seg[i].Type = "TRANSITION"
                /\ seg[i].pResource = res
                /\ seg[i].StateBefore = st.before
                /\ seg[i].StateAfter = st.after

C7_InputOf(op, b, seg) ==
    IF op = "transition_buffers"
    THEN C7_Input(b.buffer, b.usage, BufferStates(b), seg)
    ELSE C7_Input(b.texture.resource, b.usage, TextureStates(b), seg)

RECURSIVE C7_Inputs(_, _, _)
C7_Inputs(op, inputs, batch) ==
    IF inputs = <<>> THEN batch = <<>>
    ELSE \E k \in 0..Len(batch) :
            /\ C7_InputOf(op, Head(inputs), SubSeq(batch, 1, k))
            /\ C7_Inputs(op, Tail(inputs), SubSeq(batch, k + 1, Len(batch)))

\* C7: for every input of transition_buffers and transition_textures: equal
\* usages other than storage write emit nothing; equal usages that are
\* storage write emit one hazard barrier on the resource and no transition;
\* differing states emit transitions with exactly these states and no hazard
\* barrier.
C7_BarrierKinds == IsTransitionCall => C7_Inputs(last.op, last.arg, Batch)

\* A call was given an input that needs no barrier and one that needs a
\* hazard barrier, and recorded the hazard barrier alone.
C7_Witness ==
    /\ last.op = "transition_buffers"
    /\ \E i, j \in DOMAIN last.arg :
          /\ last.arg[i].usage = [start |-> {"VERTEX"}, end |-> {"VERTEX"}]
          /\ last.arg[j].usage = [start |-> {"STORAGE_WRITE"}, end |-> {"STORAGE_WRITE"}]
          /\ Batch = <<UAVBarrier(last.arg[j].buffer)>>

InputResource(op, b) == IF op = "transition_buffers" THEN b.buffer ELSE b.texture.resource

\* The input needs a barrier: its states differ or it starts as storage write.
NeedsBarrier(op, b) ==
    \/ b.usage.start = {"STORAGE_WRITE"}
    \/ IF op = "transition_buffers"
       THEN BufferStates(b).before # BufferStates(b).after
       ELSE TextureStates(b).before # TextureStates(b).after

\* The batch holds the inputs' barriers in input order: it splits into one
\* run per input, on that input's resource, empty exactly for the inputs
\* that need no barrier.
RECURSIVE InInputOrder(_, _, _)
InInputOrder(op, inputs, batch) ==
    IF inputs = <<>> THEN batch = <<>>
    ELSE \E k \in 0..Len(batch) :
            /\ (k > 0) = NeedsBarrier(op, Head(inputs))
            /\ \A i \in 1..k : batch[i].pResource = InputResource(op, Head(inputs))
            /\ InInputOrder(op, Tail(inputs), SubSeq(batch, k + 1, Len(batch)))

\* C8: a transition call records one native barrier batch holding all the
\* barriers synthesized for it, in input order, when there is at least one,
\* and records nothing otherwise; no batch of count zero is ever recorded.
C8_OneBatchPerCall ==
    /\ IsTransitionCall =>
          /\ Len(last.rec) <= 1
          /\ (last.rec = <<>>) = (temp[last.e].barriers = <<>>)
          /\ last.rec # <<>> =>
                /\ last.rec[1].op = "ResourceBarrier"
                /\ last.rec[1].pBarriers = temp[last.e].barriers
                /\ last.rec[1].NumBarriers = Len(temp[last.e].barriers)
          /\ InInputOrder(last.op, last.arg, Batch)
    /\ \A h \in Handles : \A i \in DOMAIN native[h].cmds :
          native[h].cmds[i].op = "ResourceBarrier" => native[h].cmds[i].NumBarriers >= 1

\* A call with two inputs recorded one batch of three barriers: two
\* subresource transitions of the first input, then the hazard barrier of
\* the second.
C8_Witness ==
    /\ last.op = "transition_textures"
    /\ Len(last.arg) = 2
    /\ Len(last.rec) = 1
    /\ Len(Batch) = 3
    /\ Batch[1].Type = "TRANSITION" /\ Batch[2].Type = "TRANSITION"
    /\ Batch[3].Type = "UAV"

\* A barrier of the resolve r of a render pass: its source between the
\* render-target and the resolve-source state, or its destination between
\* the render-target and the resolve-destination state.
FromResolveSrc(b, r) ==
    /\ b.Type = "TRANSITION"
    /\ b.pResource = r.src[1] /\ b.Subresource = r.src[2]
    /\ {b.StateBefore, b.StateAfter} = {{"RENDER_TARGET"}, {"RESOLVE_SOURCE"}}

FromResolveDst(b, r) ==
    /\ b.Type = "TRANSITION"
    /\ b.pResource = r.dst[1] /\ b.Subresource = r.dst[2]
    /\ {b.StateBefore, b.StateAfter} = {{"RENDER_TARGET"}, {"RESOLVE_DEST"}}

\* The batch holds the barriers of the resolves and nothing else: two per
\* resolve, source then destination, in the order of the resolves.
FromResolves(resolves, batch) ==
    /\ Len(batch) = 2 * Len(resolves)
    /\ \A i \in DOMAIN resolves :
          /\ FromResolveSrc(batch[2 * i - 1], resolves[i])
          /\ FromResolveDst(batch[2 * i], resolves[i])

\* The barriers seg come from the buffer input b alone.
FromBufferInput(b, seg) ==
    IF ~NeedsBarrier("transition_buffers", b) THEN seg = <<>>
    ELSE /\ Len(seg) = 1
         /\ seg[1].pResource = b.buffer
         /\ \/ seg[1].Type = "UAV"
            \/ /\ seg[1].Type = "TRANSITION"
               /\ seg[1].StateBefore = BufferStates(b).before
               /\ seg[1].StateAfter = BufferStates(b).after

\* The barriers seg come from the texture input b alone: each is on b's
\* texture, a transition carries b's states, and no subresource is named
\* twice.
FromTextureInput(b, seg) ==
    IF ~NeedsBarrier("transition_textures", b) THEN seg = <<>>
    ELSE /\ seg # <<>>
         /\ \A i \in DOMAIN seg :
               /\ seg[i].pResource = b.texture.resource
               /\ \/ seg[i].Type = "UAV" /\ Len(seg) = 1
                  \/ /\ seg[i].Type = "TRANSITION"
                     /\ seg[i].StateBefore = TextureStates(b).before
                     /\ seg[i].StateAfter = TextureStates(b).after
                     /\ \A j \in DOMAIN seg : seg[j].Subresource = seg[i].Subresource => j = i

RECURSIVE FromInputs(_, _, _)
FromInputs(op, inputs, batch) ==
    IF inputs = <<>> THEN batch = <<>>
    ELSE \E k \in 0..Len(batch) :
            /\ IF op = "transition_buffers"
               THEN FromBufferInput(Head(inputs), SubSeq(batch, 1, k))
               ELSE FromTextureInput(Head(inputs), SubSeq(batch, 1, k))
            /\ FromInputs(op, Tail(inputs), SubSeq(batch, k + 1, Len(batch)))

\* The barrier batches the last call recorded.
Batches == SelectSeq(last.rec, LAMBDA c : c.op = "ResourceBarrier")

\* C9: in a sequence of transition_buffers, transition_textures and
\* end_render_pass calls on one encoder, every barrier batch a call records
\* holds the barriers derived from that call's own inputs and no other: a
\* transition call's batch splits into the barriers of its inputs, the
\* batches of end_render_pass are those of the pass's resolves, and no other
\* call records a batch.
C9_NoBarrierLeakage ==
    IF IsTransitionCall
    THEN /\ Len(Batches) <= 1
         /\ FromInputs(last.op, last.arg, IF Batches = <<>> THEN <<>> ELSE Batches[1].pBarriers)
    ELSE IF last.op = "end_render_pass"
    THEN /\ Len(Batches) = (IF last.arg = <<>> THEN 0 ELSE 2)
         /\ \A i \in DOMAIN Batches : FromResolves(last.arg, Batches[i].pBarriers)
    ELSE Batches = <<>>

\* A transition call that recorded a batch right after an end_render_pass
\* that had left its flipped resolve barriers in the scratch.
C9_Witness ==
    /\ IsTransitionCall
    /\ last.prev.op = "end_render_pass"
    /\ Batches # <<>>
    /\ \E i \in DOMAIN native[list["e1"][1]].cmds :
          LET c == native[list["e1"][1]].cmds[i]
          IN /\ c.op = "ResourceBarrier"
             /\ c.pBarriers[1].StateAfter = {"RENDER_TARGET"}

(***************************************************************************)
(* Draw properties.                                                        *)
(***************************************************************************)
\* The vertex-buffer view last bound natively for the slot on list h: <<>>
\* when none was, else <<view>>.
BoundView(h, slot) ==
    LET binds == {i \in DOMAIN native[h].cmds :
                     /\ native[h].cmds[i].op = "IASetVertexBuffers"
                     /\ native[h].cmds[i].StartSlot = slot}
    IN IF binds = {} THEN <<>>
       ELSE <<native[h].cmds[CHOOSE i \in binds : \A j \in binds : j <= i].pViews>>

\* C10: when a native draw has just been recorded, the dirty vertex-buffer
\* mask is empty and, for every slot changed by set_vertex_buffer or
\* set_render_pipeline since the pass began, the view last bound natively for
\* the slot is the encoder's recorded view of it.
C10_DrawSeesBoundViews ==
    last.op \in DrawOps =>
        /\ last.rec[Len(last.rec)].op \in DrawCmdOps
        /\ pass[last.e].dirty_vertex_buffers = 0
        /\ \A slot \in last.changed :
              BoundView(list[last.e][1], slot) = <<pass[last.e].vertex_buffers[slot]>>

\* A draw that bound two changed slots, one of them bound with another view
\* before an earlier draw.
C10_Witness ==
    /\ last.op \in DrawOps
    /\ last.changed = VertexSlots
    /\ Len(last.rec) = 3
    /\ \E i \in DOMAIN native[list["e1"][1]].cmds :
          LET c == native[list["e1"][1]].cmds[i]
          IN /\ c.op = "IASetVertexBuffers"
             /\ c.pViews # pass["e1"].vertex_buffers[c.StartSlot]

\* The slots of S in ascending order.
RECURSIVE Ascending(_)
Ascending(S) ==
    IF S = {} THEN <<>>
    ELSE LET lo == CHOOSE i \in S : \A j \in S : i <= j
         IN <<lo>> \o Ascending(S \ {lo})

\* The vertex-buffer bindings among the commands rec.
VertexBindingsOf(rec) == SelectSeq(rec, LAMBDA c : c.op = "IASetVertexBuffers")

\* C11: a draw made after set_vertex_buffer calls on N distinct slots since
\* the last draw, with no stride change from set_render_pipeline, records
\* exactly N vertex-buffer bindings before the native draw: one single-slot
\* binding for each of these slots, in ascending slot order, each of the view
\* recorded for the slot, and leaves the dirty mask zero; with N = 0, as for a
\* second draw with no change in between, it records no binding.
C11_PrepareDrawFlushes ==
    [][(last'.op \in DrawOps /\ last.strided = {}) =>
          LET binds == VertexBindingsOf(last'.rec)
              slots == Ascending(last.vb_set)
          IN /\ Len(binds) = Cardinality(last.vb_set)
             /\ Len(last'.rec) = Len(binds) + 1
             /\ \A i \in DOMAIN binds :
                   /\ binds[i] = last'.rec[i]
                   /\ binds[i].StartSlot = slots[i]
                   /\ binds[i].NumViews = 1
                   /\ binds[i].pViews = pass[last'.e].vertex_buffers[slots[i]]
             /\ pass'[last'.e].dirty_vertex_buffers = 0]_vars

\* A draw that bound both slots, set by set_vertex_buffer since the draw
\* before it, the higher slot set last.
C11_Witness ==
    /\ last.op \in DrawOps
    /\ last.prev.op = "set_vertex_buffer"
    /\ Len(last.rec) = 3
    /\ last.rec[1].op = "IASetVertexBuffers" /\ last.rec[1].StartSlot = 0
    /\ last.rec[2].op = "IASetVertexBuffers" /\ last.rec[2].StartSlot = 1
    /\ OnList(last.e, DrawCmdOps) = 2

(***************************************************************************)
(* Root binding properties.                                                *)
(***************************************************************************)
TableOps == {"SetGraphicsRootDescriptorTable", "SetComputeRootDescriptorTable"}

RootViewOps ==
    {"SetGraphicsRootConstantBufferView", "SetComputeRootConstantBufferView",
     "SetGraphicsRootShaderResourceView", "SetComputeRootShaderResourceView",
     "SetGraphicsRootUnorderedAccessView", "SetComputeRootUnorderedAccessView"}

\* The native root-parameter bindings among the commands rec.
RootBindingsOf(rec) == SelectSeq(rec, LAMBDA c : c.op \in TableOps \cup RootViewOps)

\* The signature and the root-table length a call is given.
GivenSignature(call) ==
    IF call.op = "set_bind_group" THEN call.arg.layout.raw ELSE call.arg.signature

GivenTotal(call) ==
    IF call.op = "set_bind_group" THEN call.arg.layout.total_root_elements
    ELSE call.arg.total_root_elements

\* The binding c emits the root element el at slot i.
Emits(c, i, el) ==
    /\ c.index = i
    /\ IF el.tag = "Table"
       THEN c.op \in TableOps /\ c.descriptor = el.descriptor
       ELSE c.op \in RootViewOps /\ c.address = el.address

\* The bindings are a full flush of the root table: one for every non-empty
\* slot of 0..total-1, in slot order, of the slot's element.
FullFlush(bindings, root_elements, total) ==
    LET slots == Ascending({i \in 0..(total - 1) : root_elements[i].tag # "Empty"})
    IN /\ Len(bindings) = Len(slots)
       /\ \A k \in DOMAIN slots : Emits(bindings[k], slots[k], root_elements[slots[k]])

\* The table slots the layout declares for the group of a set_bind_group
\* call, and the dynamic-offset slots the call writes.
TableSlots(arg) ==
    LET info == arg.layout.bind_group_infos[arg.index]
    IN info.base_root_index..(info.base_root_index + Cardinality(info.tables) - 1)

DynamicSlots(arg) ==
    LET info == arg.layout.bind_group_infos[arg.index]
        first == info.base_root_index + Cardinality(info.tables)
    IN first..(first + ZipLen(info, arg.group, arg.dynamic_offsets) - 1)

\* The slots a set_bind_group call writes.
WrittenSlots(arg) ==
    (IF arg.invalidation = "All" THEN TableSlots(arg) ELSE {}) \cup DynamicSlots(arg)

\* C12: set_bind_group, set_render_pipeline and set_compute_pipeline, given a
\* signature that differs from the one the pass tracks, emit every non-empty
\* slot of the root table 0..total_root_elements and make the given signature
\* the tracked one; given the tracked signature, set_bind_group emits only
\* slots it wrote in this call and the pipeline calls emit no root binding.
C12_SignatureChangeFlushes ==
    [][last'.op \in SignatureCalls =>
          LET e == last'.e
              bindings == RootBindingsOf(last'.rec)
          IN IF pass[e].signature # GivenSignature(last')
             THEN /\ FullFlush(bindings, pass'[e].root_elements, GivenTotal(last'))
                  /\ pass'[e].signature = GivenSignature(last')
             ELSE /\ pass'[e].signature = pass[e].signature
                  /\ IF last'.op = "set_bind_group"
                     THEN \A k \in DOMAIN bindings :
                             bindings[k].index \in WrittenSlots(last'.arg)
                     ELSE bindings = <<>>]_vars

\* A set_bind_group call that changed the signature and wrote one slot
\* emitted three: the two slots written under the signature before, too.
C12_Witness ==
    /\ last.op = "set_bind_group"
    /\ last.arg.layout = Layout1 /\ last.arg.index = 1
    /\ Len(RootBindingsOf(last.rec)) = 3

PassEnds == {"end_render_pass", "end_compute_pass"}

\* The Pass holds nothing of a pass: no signature, no root element, no dirty
\* vertex buffer, no resolve.
PassIsReset(p) ==
    /\ p.signature = None
    /\ \A i \in RootIndices : p.root_elements[i].tag = "Empty"
    /\ p.dirty_vertex_buffers = 0
    /\ p.resolves = <<>>

\* The resolve operations among the commands rec.
ResolvesOf(rec) == SelectSeq(rec, LAMBDA c : c.op = "ResolveSubresource")

\* C13: end_render_pass and end_compute_pass leave the tracked signature
\* none, every root slot Empty, the dirty mask zero and the resolve list
\* empty; the first set_bind_group or set-pipeline call of a pass finds no
\* tracked signature and flushes the whole root table; and what a pass emits
\* was recorded in that pass: every root binding is of a slot written since
\* the pass began, every vertex-buffer binding of a slot changed since the
\* pass began, every resolve one of those the pass was begun with.
C13_PassStateReset ==
    [][LET e == last'.e
       IN /\ last'.op \in PassEnds => PassIsReset(pass'[e])
          /\ (last'.op \in SignatureCalls /\ ~last.bound) =>
                /\ pass[e].signature = None
                /\ FullFlush(RootBindingsOf(last'.rec), pass'[e].root_elements,
                             GivenTotal(last'))
          /\ last'.op \in SignatureCalls =>
                \A k \in DOMAIN RootBindingsOf(last'.rec) :
                   LET c == RootBindingsOf(last'.rec)[k]
                   IN /\ c.index \in last'.written
                      /\ Emits(c, c.index, pass'[e].root_elements[c.index])
          /\ last'.op \in DrawOps =>
                \A k \in DOMAIN VertexBindingsOf(last'.rec) :
                   VertexBindingsOf(last'.rec)[k].StartSlot \in last.changed
          /\ last'.op = "end_render_pass" =>
                /\ Len(ResolvesOf(last'.rec)) = Len(last.resolving)
                /\ \A k \in DOMAIN last.resolving :
                      /\ ResolvesOf(last'.rec)[k].pSrcResource = last.resolving[k].src[1]
                      /\ ResolvesOf(last'.rec)[k].SrcSubresource = last.resolving[k].src[2]
                      /\ ResolvesOf(last'.rec)[k].pDstResource = last.resolving[k].dst[1]
                      /\ ResolvesOf(last'.rec)[k].DstSubresource = last.resolving[k].dst[2]
      ]_vars

\* The first set_bind_group of a pass, on a list where an earlier pass had
\* recorded root bindings and was ended.
C13_Witness ==
    /\ last.op = "set_bind_group"
    /\ last.prev.op \in PassBegins
    /\ RootBindingsOf(last.rec) # <<>>
    /\ \E i, j \in DOMAIN native[list["e1"][1]].cmds :
          LET cmds == native[list["e1"][1]].cmds
          IN /\ i < j
             /\ cmds[i].op \in TableOps \cup RootViewOps
             /\ cmds[j].op = "SetDescriptorHeaps" /\ cmds[j].heaps = <<>>

(***************************************************************************)
(* Resolve properties.                                                     *)
(***************************************************************************)
\* The first batch of the resolves: per resolve, the source from render
\* target to resolve source, then the destination from render target to
\* resolve destination.
IsResolveBatch(c, resolves) ==
    /\ c.op = "ResourceBarrier"
    /\ c.NumBarriers = 2 * Len(resolves)
    /\ Len(c.pBarriers) = 2 * Len(resolves)
    /\ \A k \in DOMAIN resolves :
          /\ c.pBarriers[2 * k - 1] =
                [Type |-> "TRANSITION", pResource |-> resolves[k].src[1],
                 Subresource |-> resolves[k].src[2],
                 StateBefore |-> {"RENDER_TARGET"}, StateAfter |-> {"RESOLVE_SOURCE"}]
          /\ c.pBarriers[2 * k] =
                [Type |-> "TRANSITION", pResource |-> resolves[k].dst[1],
                 Subresource |-> resolves[k].dst[2],
                 StateBefore |-> {"RENDER_TARGET"}, StateAfter |-> {"RESOLVE_DEST"}]

\* Batch d is batch c with the before and after state of every barrier
\* swapped.
IsSwappedBatch(d, c) ==
    /\ d.op = "ResourceBarrier"
    /\ d.NumBarriers = c.NumBarriers
    /\ Len(d.pBarriers) = Len(c.pBarriers)
    /\ \A i \in DOMAIN c.pBarriers :
          /\ d.pBarriers[i].Type = "TRANSITION"
          /\ d.pBarriers[i].pResource = c.pBarriers[i].pResource
          /\ d.pBarriers[i].Subresource = c.pBarriers[i].Subresource
          /\ d.pBarriers[i].StateBefore = c.pBarriers[i].StateAfter
          /\ d.pBarriers[i].StateAfter = c.pBarriers[i].StateBefore

\* The state the barriers leave the subresource in, from the state it is in.
RECURSIVE StateAfterBarriers(_, _, _, _)
StateAfterBarriers(state, resource, subresource, barriers) ==
    IF barriers = <<>> THEN state
    ELSE StateAfterBarriers(
            IF /\ Head(barriers).pResource = resource
               /\ Head(barriers).Subresource = subresource
               /\ Head(barriers).StateBefore = state
            THEN Head(barriers).StateAfter ELSE state,
            resource, subresource, Tail(barriers))

\* C14: end_render_pass with K >= 1 recorded resolves records one batch of
\* the 2K resolve transitions, then the K resolve operations in recording
\* order, then one batch of the same barriers with before and after swapped,
\* then the pass-end commands, so that every resolve subresource ends in the
\* render-target state it was in; with K = 0 it records no batch and no
\* resolve; begin_render_pass records no batch and no resolve.
C14_ResolveSequence ==
    /\ last.op = "begin_render_pass" => Batches = <<>> /\ ResolvesOf(last.rec) = <<>>
    /\ (last.op = "end_render_pass" /\ last.resolving = <<>>) =>
          /\ Batches = <<>> /\ ResolvesOf(last.rec) = <<>>
          /\ last.rec[1] = [op |-> "SetDescriptorHeaps", heaps |-> <<>>]
    /\ (last.op = "end_render_pass" /\ last.resolving # <<>>) =>
          LET K == Len(last.resolving)
              rec == last.rec
          IN /\ Len(rec) >= K + 3
             /\ IsResolveBatch(rec[1], last.resolving)
             /\ \A k \in 1..K :
                   rec[1 + k] =
                      [op |-> "ResolveSubresource",
                       pDstResource |-> last.resolving[k].dst[1],
                       DstSubresource |-> last.resolving[k].dst[2],
                       pSrcResource |-> last.resolving[k].src[1],
                       SrcSubresource |-> last.resolving[k].src[2],
                       Format |-> last.resolving[k].format]
             /\ IsSwappedBatch(rec[K + 2], rec[1])
             /\ rec[K + 3] = [op |-> "SetDescriptorHeaps", heaps |-> <<>>]
             /\ \A i \in (K + 4)..Len(rec) : rec[i].op = "EndEvent"
             /\ \A k \in 1..K : \A t \in {last.resolving[k].src, last.resolving[k].dst} :
                   StateAfterBarriers({"RENDER_TARGET"}, t[1], t[2],
                                      rec[1].pBarriers \o rec[K + 2].pBarriers)
                      = {"RENDER_TARGET"}

\* An end_render_pass with two recorded resolves.
C14_Witness ==
    /\ last.op = "end_render_pass"
    /\ Len(last.resolving) = 2
    /\ Len(last.rec) = 5

(***************************************************************************)
(* fill_buffer properties.                                                 *)
(***************************************************************************)
\* ceil(len / ZERO_BUFFER_SIZE) for len >= 0
Chunks(len) == (len + ZERO_BUFFER_SIZE - 1) \div ZERO_BUFFER_SIZE

\* C15: fill_buffer of [start, end) with value 0 records exactly
\* ceil((end - start) / ZERO_BUFFER_SIZE) copies and nothing else, each from
\* offset 0 of the zero buffer with size at most ZERO_BUFFER_SIZE, the first
\* at start, each next where the one before ended, the last ending at end; an
\* empty range records no copy; a non-zero value aborts the call with
\* nothing recorded.
C15_FillBufferTiles ==
    last.op = "fill_buffer" =>
        IF last.arg.value # 0
        THEN last.ret = "Abort" /\ last.rec = <<>>
        ELSE LET rec == last.rec
                 start == last.arg.range.start
                 end == last.arg.range.end
             IN /\ last.ret = "Ok"
                /\ Len(rec) = Chunks(end - start)
                /\ \A i \in DOMAIN rec :
                      /\ rec[i].op = "CopyBufferRegion"
                      /\ rec[i].pDstBuffer = last.arg.buffer
                      /\ rec[i].pSrcBuffer = "zero_buffer"
                      /\ rec[i].SrcOffset = 0
                      /\ rec[i].NumBytes >= 1 /\ rec[i].NumBytes <= ZERO_BUFFER_SIZE
                      /\ rec[i].DstOffset =
                            IF i = 1 THEN start ELSE rec[i - 1].DstOffset + rec[i - 1].NumBytes
                /\ rec # <<>> => rec[Len(rec)].DstOffset + rec[Len(rec)].NumBytes = end

\* A fill of three chunks and one byte, from inside the buffer: four copies.
C15_Witness ==
    /\ last.op = "fill_buffer"
    /\ last.arg.range.start = 7
    /\ last.arg.range.end = 7 + 3 * ZERO_BUFFER_SIZE + 1
    /\ Len(last.rec) = 4

(***************************************************************************)
(* Contract violations.                                                    *)
(***************************************************************************)
\* C16: a set_bind_group call given a number of dynamic offsets that is not
\* the number of dynamic buffers the layout declares for the group is
\* aborted, with no native binding recorded.
C16_OffsetCountMismatchAborts ==
    (/\ last.op = "set_bind_group"
     /\ Len(last.arg.dynamic_offsets) #
           Len(last.arg.layout.bind_group_infos[last.arg.index].dynamic_buffers))
    => (last.ret = "Abort" /\ last.rec = <<>>)

\* C17: a draw called while an encoding is open and no render pass is open
\* is aborted, with no native draw recorded.
C17_DrawOutsidePassAborts ==
    (last.op \in DrawOps /\ pass[last.e].kind # "Render")
    => (last.ret = "Abort" /\ last.rec = <<>>)

\* The dynamic-offset slots the layout declares for the group of a
\* set_bind_group call.
DeclaredDynamicSlots(arg) ==
    LET info == arg.layout.bind_group_infos[arg.index]
        first == info.base_root_index + Cardinality(info.tables)
    IN first..(first + Len(info.dynamic_buffers) - 1)

\* C18: set_bind_group with invalidation DynamicOffsetsOnly leaves the
\* stored value of every table slot of the group as it was and, when the
\* signature is the tracked one, records bindings only for the group's
\* dynamic-offset slots; with invalidation All every table slot the layout
\* declares for the group holds, after the call, the bind group's table
\* handle: the view table first, then the sampler table.
C18_Invalidation ==
    [][last'.op = "set_bind_group" =>
          LET arg == last'.arg
              e == last'.e
              info == arg.layout.bind_group_infos[arg.index]
              views == "SRV_CBV_UAV" \in info.tables
              samplers == "SAMPLERS" \in info.tables
          IN IF arg.invalidation = "DynamicOffsetsOnly"
             THEN /\ \A i \in TableSlots(arg) :
                        pass'[e].root_elements[i] = pass[e].root_elements[i]
                  /\ pass[e].signature = arg.layout.raw =>
                        \A k \in DOMAIN RootBindingsOf(last'.rec) :
                           /\ RootBindingsOf(last'.rec)[k].index \in DeclaredDynamicSlots(arg)
                           /\ RootBindingsOf(last'.rec)[k].op \in RootViewOps
             ELSE /\ views =>
                        pass'[e].root_elements[info.base_root_index] =
                           [tag |-> "Table", descriptor |-> arg.group.handle_views[1]]
                  /\ samplers =>
                        pass'[e].root_elements[info.base_root_index
                                               + (IF views THEN 1 ELSE 0)] =
                           [tag |-> "Table", descriptor |-> arg.group.handle_samplers[1]]
      ]_vars

\* A set_bind_group call with DynamicOffsetsOnly under the tracked signature
\* recorded the binding of the group's dynamic-offset slot alone, the
\* group's table slot holding a table.
C18_Witness ==
    /\ last.op = "set_bind_group"
    /\ last.arg.invalidation = "DynamicOffsetsOnly"
    /\ last.arg.layout = Layout1 /\ last.arg.index = 0
    /\ last.prev.op = "set_bind_group"
    /\ Len(last.rec) = 1
    /\ last.rec[1].index = 1
    /\ pass[last.e].root_elements[0].tag = "Table"

(***************************************************************************)
(* Ownership of the native lists among several encoders.                   *)
(***************************************************************************)
\* The number of times h occurs in the sequence s.
Occurrences(s, h) == Cardinality({i \in DOMAIN s : s[i] = h})

RECURSIVE SumOver(_, _)
SumOver(f, S) ==
    IF S = {} THEN 0
    ELSE LET x == CHOOSE y \in S : TRUE
         IN f[x] + SumOver(f, S \ {x})

\* The number of places that hold h: the encoders it is open on, its
\* occurrences in the pools, the outstanding command buffer that owns it.
Places(h) ==
    SumOver([e \in Encoders |-> IF list[e] = <<h>> THEN 1 ELSE 0], Encoders)
    + SumOver([e \in Encoders |-> Occurrences(free_lists[e], h)], Encoders)
    + (IF h \in cmdbufs THEN 1 ELSE 0)

\* C19: under any interleaving of the lifecycle calls of two encoders,
\* reset_all taking command buffers produced by either, every native list
\* is in at most one place: open on one encoder, once in one pool, or owned
\* by one outstanding command buffer.
C19_ExclusiveOwnership == \A h \in Handles : Places(h) <= 1

\* The second encoder has opened the list of a command buffer it was given
\* by reset_all, a list it did not create, while the first encoder, which
\* created every list, has another list open.
C19_Witness ==
    /\ last.op = "begin_encoding" /\ last.e = "e2" /\ last.h # <<>>
    /\ last.prev.op = "reset_all"
    /\ list["e2"] = last.h
    /\ list["e1"] # <<>> /\ list["e1"] # list["e2"]
    /\ created = Cardinality({list["e1"][1], list["e2"][1]})

(***************************************************************************)
(* The native root signature.                                              *)
(***************************************************************************)
\* The native call that sets the root signature of a pass of the kind.
SetSignatureOp(kind) ==
    IF kind = "Render" THEN "SetGraphicsRootSignature" ELSE "SetComputeRootSignature"

\* The root signature the commands cmds leave set on the list for passes of
\* the kind, None when they set none.
NativeSignature(cmds, kind) ==
    LET sets == SelectSeq(cmds, LAMBDA c : c.op = SetSignatureOp(kind))
    IN IF sets = <<>> THEN None ELSE sets[Len(sets)].signature

\* C20: when a draw or dispatch has been recorded in a pass whose tracked
\* signature is set, and when set_bind_group has recorded root-parameter
\* bindings, the commands on the list since it was begun have set the root
\* signature of the pass type to the signature the encoder tracks.
C20_NativeSignatureSet ==
    (/\ last.op \in DrawOps \cup {"dispatch", "set_bind_group"}
     /\ last.ret = "Ok"
     /\ last.op = "set_bind_group" => RootBindingsOf(last.rec) # <<>>
     /\ pass[last.e].signature # None)
    => NativeSignature(native[list[last.e][1]].cmds, pass[last.e].kind)
          = pass[last.e].signature

(***************************************************************************)
(* Root slots across a signature change.                                   *)
(***************************************************************************)
\* C21: when set_bind_group, set_render_pipeline or set_compute_pipeline is
\* given a signature that differs from the tracked one, every root binding
\* the full flush records is of a slot that was written by a set_bind_group
\* call made with a layout of the given signature.
C21_FlushOfNewLayoutOnly ==
    [][(last'.op \in SignatureCalls
          /\ pass[last'.e].signature # GivenSignature(last'))
       => \A k \in DOMAIN RootBindingsOf(last'.rec) :
             last'.origin[RootBindingsOf(last'.rec)[k].index] = GivenSignature(last')
      ]_vars

(***************************************************************************)
(* The scratch across encodings.                                           *)
(***************************************************************************)
\* C22: a successful begin_encoding leaves Temp empty, the Pass initial and
\* the open list without a command, also after an encoding that was ended
\* or discarded inside a pass; and what the calls of an encoding record is
\* of that encoding: every vertex-buffer binding of a draw is of a slot
\* changed since its pass began, every root binding of a slot written since
\* its pass began, every resolve one of those its pass was begun with, and
\* the end-event of a pass that of the label the pass was begun with.
C22_FreshEncoding ==
    [][LET e == last'.e
       IN /\ (last'.op = "begin_encoding" /\ last'.ret = "Ok") =>
                /\ temp'[e] = TempClear
                /\ pass'[e] = PassNew
                /\ native'[list'[e][1]].cmds = <<>>
          /\ last'.op \in DrawOps =>
                \A k \in DOMAIN VertexBindingsOf(last'.rec) :
                   VertexBindingsOf(last'.rec)[k].StartSlot \in last.changed
          /\ last'.op \in SignatureCalls =>
                \A k \in DOMAIN RootBindingsOf(last'.rec) :
                   RootBindingsOf(last'.rec)[k].index \in last'.written
          /\ last'.op = "end_render_pass" =>
                /\ Len(ResolvesOf(last'.rec)) = Len(last.resolving)
                /\ (\E k \in DOMAIN last'.rec : last'.rec[k].op = "EndEvent")
                      <=> pass[e].has_label
      ]_vars

\* A begin_encoding has succeeded with a list from the pool after an
\* encoding that was discarded inside a labelled render pass with a resolve,
\* a root slot written and a vertex buffer changed.
C22_Witness ==
    /\ last.op = "begin_encoding" /\ last.ret = "Ok"
    /\ last.prev.op = "discard_encoding"
    /\ last.popped > 0
    /\ last.written # {}
    /\ last.changed # {}
    /\ last.resolving # <<>>
    /\ pass[last.e] = PassNew
    /\ temp[last.e] = TempClear

(***************************************************************************)
(* The dynamic-offset slots.                                               *)
(***************************************************************************)
\* The root slots the layout declares for the group of a set_bind_group
\* call: its tables, then its dynamic-offset buffers.
GroupSlots(arg) == TableSlots(arg) \cup DeclaredDynamicSlots(arg)

\* C23: set_bind_group, under either invalidation, leaves in root slot
\* base_root_index + T + k (T the number of tables of the group, k counted
\* from 0) a DynamicOffsetBuffer of the layout's k-th kind whose address is
\* the group's k-th base address plus the k-th dynamic offset, for every k
\* that has a kind, a base address and an offset; no slot outside the
\* group's range changes.
C23_DynamicOffsetSlots ==
    [][last'.op = "set_bind_group" =>
          LET arg == last'.arg
              e == last'.e
              info == arg.layout.bind_group_infos[arg.index]
              first == info.base_root_index + Cardinality(info.tables)
              ks == (DOMAIN info.dynamic_buffers) \cap (DOMAIN arg.group.dynamic_buffers)
                       \cap (DOMAIN arg.dynamic_offsets)
          IN /\ \A k \in ks :
                   pass'[e].root_elements[first + k - 1] =
                      [tag     |-> "DynamicOffsetBuffer",
                       kind    |-> info.dynamic_buffers[k],
                       address |-> arg.group.dynamic_buffers[k] + arg.dynamic_offsets[k]]
             /\ \A i \in RootIndices \ GroupSlots(arg) :
                   pass'[e].root_elements[i] = pass[e].root_elements[i]
      ]_vars

\* After set_bind_group calls under both invalidations, the slot after the
\* table of group 0 of the first layout holds the constant buffer at its
\* base address plus the offset 256, and the table slot of group 1 is as it
\* was written before.
C23_Witness ==
    /\ last.op = "set_bind_group"
    /\ last.arg.layout = Layout1 /\ last.arg.index = 0
    /\ last.arg.invalidation = "DynamicOffsetsOnly"
    /\ last.arg.dynamic_offsets = <<256>>
    /\ pass[last.e].root_elements[1] =
          [tag |-> "DynamicOffsetBuffer", kind |-> "Constant",
           address |-> last.arg.group.dynamic_buffers[1] + 256]
    /\ pass[last.e].root_elements[2].tag = "Table"

(***************************************************************************)
(* The flush of a range of the root table.                                 *)
(***************************************************************************)
\* The native entry point that binds a root element of the stored kind in a
\* pass of the kind.
EntryPoint ==
    [Render  |-> [Table           |-> "SetGraphicsRootDescriptorTable",
                  Constant        |-> "SetGraphicsRootConstantBufferView",
                  ShaderResource  |-> "SetGraphicsRootShaderResourceView",
                  UnorderedAccess |-> "SetGraphicsRootUnorderedAccessView"],
     Compute |-> [Table           |-> "SetComputeRootDescriptorTable",
                  Constant        |-> "SetComputeRootConstantBufferView",
                  ShaderResource  |-> "SetComputeRootShaderResourceView",
                  UnorderedAccess |-> "SetComputeRootUnorderedAccessView"]]

\* The binding of the root element el of slot i in a pass of the kind.
BindingOf(kind, i, el) ==
    IF el.tag = "Table"
    THEN [op |-> EntryPoint[kind]["Table"], index |-> i, descriptor |-> el.descriptor]
    ELSE [op |-> EntryPoint[kind][el.kind], index |-> i, address |-> el.address]

\* The slots a signature call flushes: the whole table of the given
\* signature when it differs from the tracked one, else the slots a
\* set_bind_group wrote and none for a pipeline.
FlushedSlots(call, tracked) ==
    IF tracked # GivenSignature(call) THEN 0..(GivenTotal(call) - 1)
    ELSE IF call.op = "set_bind_group" THEN WrittenSlots(call.arg)
    ELSE {}

\* C24: the flush of a range of the root table records, in a render or
\* compute pass, one binding for every non-empty slot of the range, in slot
\* order, through the entry point of the pass type and of the slot's stored
\* kind, with the slot's index and value; it records nothing for an Empty
\* slot and nothing outside a pass; the flush of a pipeline call leaves the
\* root table as it was.
C24_FlushBindings ==
    [][last'.op \in SignatureCalls =>
          LET e == last'.e
              kind == pass'[e].kind
              root == pass'[e].root_elements
              slots == Ascending({i \in FlushedSlots(last', pass[e].signature) :
                                     root[i].tag # "Empty"})
              bindings == RootBindingsOf(last'.rec)
          IN /\ kind = pass[e].kind
             /\ IF kind = "Transfer"
                THEN bindings = <<>>
                ELSE /\ Len(bindings) = Len(slots)
                     /\ \A k \in DOMAIN slots :
                           bindings[k] = BindingOf(kind, slots[k], root[slots[k]])
             /\ last'.op # "set_bind_group" => root = pass[e].root_elements
      ]_vars

\* A set_bind_group in a compute pass has flushed the table of three slots:
\* it recorded the table and the constant-buffer view through the compute
\* entry points and nothing for the Empty slot.
C24_Witness ==
    /\ last.op = "set_bind_group"
    /\ pass[last.e].kind = "Compute"
    /\ last.prev.op = "begin_compute_pass"
    /\ Len(last.rec) = 2
    /\ last.rec[1].op = "SetComputeRootDescriptorTable"
    /\ last.rec[2].op = "SetComputeRootConstantBufferView"
    /\ \E i \in RootIndices : pass[last.e].root_elements[i].tag = "Empty"

(***************************************************************************)
(* Vertex strides.                                                         *)
(***************************************************************************)
\* C25: set_render_pipeline sets the dirty bit of a vertex-buffer slot and
\* records the pipeline's stride for it, the rest of the view kept, exactly
\* when the pipeline declares a stride for the slot that differs from the
\* recorded one; every other slot keeps its view and its dirty bit; and the
\* next draw binds every slot whose stride was changed since the draw
\* before, with the changed stride.
C25_StrideChange ==
    [][LET e == last'.e
       IN /\ last'.op = "set_render_pipeline" =>
                \A i \in VertexSlots :
                   LET declared == last'.arg.vertex_strides[i]
                       before == pass[e].vertex_buffers[i]
                   IN IF declared # <<>> /\ declared[1] # before.StrideInBytes
                      THEN /\ pass'[e].vertex_buffers[i] =
                                 [before EXCEPT !.StrideInBytes = declared[1]]
                           /\ HasBit(pass'[e].dirty_vertex_buffers, i)
                      ELSE /\ pass'[e].vertex_buffers[i] = before
                           /\ HasBit(pass'[e].dirty_vertex_buffers, i)
                                 = HasBit(pass[e].dirty_vertex_buffers, i)
          /\ last'.op \in DrawOps =>
                \A i \in last.strided :
                   \E k \in DOMAIN VertexBindingsOf(last'.rec) :
                      /\ VertexBindingsOf(last'.rec)[k].StartSlot = i
                      /\ VertexBindingsOf(last'.rec)[k].pViews.StrideInBytes
                            = pass[e].vertex_buffers[i].StrideInBytes
      ]_vars

\* A draw right after set_render_pipeline has bound a slot that no
\* set_vertex_buffer call had set, with the stride of the pipeline.
C25_Witness ==
    /\ last.op \in DrawOps
    /\ last.prev.op = "set_render_pipeline"
    /\ \E k \in DOMAIN VertexBindingsOf(last.rec) :
          /\ VertexBindingsOf(last.rec)[k].pViews.BufferLocation = 0
          /\ VertexBindingsOf(last.rec)[k].pViews.StrideInBytes > 0

(***************************************************************************)
(* Clears at the begin of a render pass.                                   *)
(***************************************************************************)
\* The commands of rec with the given op.
CmdsOf(rec, op) == SelectSeq(rec, LAMBDA c : c.op = op)

\* The colour attachments of the descriptor that do not load.
ClearedColors(desc) ==
    SelectSeq(desc.color_attachments, LAMBDA cat : "LOAD" \notin cat.ops)

\* The aspects of the depth-stencil attachment that do not load.
ClearedAspects(ds) ==
    (IF "LOAD" \notin ds.depth_ops THEN {"DEPTH"} ELSE {})
    \cup (IF "LOAD" \notin ds.stencil_ops THEN {"STENCIL"} ELSE {})

\* C26: begin_render_pass records one clear for every colour attachment
\* whose ops lack the load flag, of that attachment's view, and none for the
\* others; for the depth-stencil attachment it records one clear of exactly
\* the aspects whose ops lack the load flag, and no clear when both load or
\* when there is no such attachment.
C26_ClearsWhenNotLoaded ==
    last.op = "begin_render_pass" =>
        LET desc == last.arg
            colors == CmdsOf(last.rec, "ClearRenderTargetView")
            depths == CmdsOf(last.rec, "ClearDepthStencilView")
        IN /\ Len(colors) = Len(ClearedColors(desc))
           /\ \A k \in DOMAIN colors :
                 colors[k].view = ClearedColors(desc)[k].target.view.handle_rtv
           /\ IF desc.depth_stencil_attachment = <<>>
                 \/ ClearedAspects(desc.depth_stencil_attachment[1]) = {}
              THEN depths = <<>>
              ELSE /\ Len(depths) = 1
                   /\ depths[1].flags = ClearedAspects(desc.depth_stencil_attachment[1])

(***************************************************************************)
(* Events and descriptor heaps of a pass.                                  *)
(***************************************************************************)
\* The positions in rec of the commands with the given op.
PositionsOf(rec, op) == {k \in DOMAIN rec : rec[k].op = op}

\* The label a pass was begun with by the call.
LabelOf(call) == IF call.op = "begin_compute_pass" THEN call.arg ELSE call.arg.label

\* C27: the begin of a pass binds the two descriptor heaps once and records,
\* when the pass has a label, one begin-event right before that and none
\* otherwise; the end of a pass unbinds the heaps once and records, when the
\* pass was begun with a label, one end-event after that, as its last
\* command, and none otherwise.
C27_EventsAndHeaps ==
    [][/\ last'.op \in PassBegins =>
             LET rec == last'.rec
                 events == PositionsOf(rec, "BeginEvent")
                 heaps == PositionsOf(rec, "SetDescriptorHeaps")
             IN /\ Cardinality(heaps) = 1
                /\ \A k \in heaps : rec[k].heaps = <<"heap_views", "heap_samplers">>
                /\ IF LabelOf(last') # <<>>
                   THEN /\ events = {1} /\ heaps = {2}
                        /\ rec[1].size = 2 * Len(rec[1].data)
                   ELSE events = {} /\ heaps = {1}
       /\ last'.op \in PassEnds =>
             LET rec == last'.rec
                 events == PositionsOf(rec, "EndEvent")
                 heaps == PositionsOf(rec, "SetDescriptorHeaps")
             IN /\ Cardinality(heaps) = 1
                /\ \A k \in heaps : rec[k].heaps = <<>>
                /\ IF last.labelled
                   THEN events = {Len(rec)} /\ heaps = {Len(rec) - 1}
                   ELSE events = {} /\ heaps = {Len(rec)}
      ]_vars

\* A pass begun without a label has ended without an end-event on a list
\* that holds the begin-event and the end-event of an earlier pass.
C27_Witness ==
    /\ last.op \in PassEnds
    /\ ~last.labelled
    /\ PositionsOf(last.rec, "EndEvent") = {}
    /\ OnList(last.e, {"BeginEvent"}) = 1
    /\ OnList(last.e, {"EndEvent"}) = 1

====
